---------------------------- MODULE Spec2Model ----------------------------
(***************************************************************************)
(* A model of elit/component/tokenize.py: Tokenizer.offsets,               *)
(* SpaceTokenizer and EnglishTokenizer.                                    *)
(*                                                                         *)
(* A Python str is a sequence of one-character strings.  Indices and       *)
(* offsets are Python's: 0-based, ranges half-open [begin, end).           *)
(* The characters are ASCII; the non-ASCII members of the character        *)
(* classes (curly quotes, dashes, arrows, currency signs) and the          *)
(* backquote are left out.                                                 *)
(***************************************************************************)
EXTENDS Integers, Sequences, FiniteSets, TLC

VARIABLES
    call,      \* the method running: "none" before any call
    pc,        \* where the call is: "idle", "loop", "final", "run", "done", "raised"
    text,      \* the text argument
    arg,       \* Tokenizer.offsets: the tokens argument
    tokens,    \* the list of tokens being built / returned
    offsets,   \* the list of (begin, end) being built / returned
    begin,     \* EnglishTokenizer.tokenize: local begin
    last,      \* EnglishTokenizer.tokenize: local last
    end,       \* tokenize: the loop variable end; offsets: the nonlocal end
    stack,     \* pending calls of tokenize_aux / add_token, innermost first
    tables,    \* the tables of the EnglishTokenizer object (self.SET_..., self.MAP_...)
    other      \* the locals of a second call of tokenize on the same object

vars == <<call, pc, text, arg, tokens, offsets, begin, last, end, stack, tables, other>>

----------------------------------------------------------------------------
(* Characters and the str methods the code uses *)

LowerSeq == <<"a","b","c","d","e","f","g","h","i","j","k","l","m",
              "n","o","p","q","r","s","t","u","v","w","x","y","z">>
UpperSeq == <<"A","B","C","D","E","F","G","H","I","J","K","L","M",
              "N","O","P","Q","R","S","T","U","V","W","X","Y","Z">>

LowerLetters == {LowerSeq[i] : i \in 1..26}
UpperLetters == {UpperSeq[i] : i \in 1..26}
Letters == LowerLetters \cup UpperLetters
Digits == {"0","1","2","3","4","5","6","7","8","9"}
Alnum == Letters \cup Digits
Whitespace == {" ", "\t"}

\* \w and \W of the re module
WordChars == Alnum \cup {"_"}

LowerMap == [c \in UpperLetters |-> LowerSeq[CHOOSE i \in 1..26 : UpperSeq[i] = c]]

lower_c(c) == IF c \in UpperLetters THEN LowerMap[c] ELSE c

\* str.lower()
lower(s) == [i \in 1..Len(s) |-> lower_c(s[i])]

\* s[i] for 0 <= i < len(s)
At(s, i) == s[i + 1]

\* s[b:e] for 0 <= b <= e <= len(s)
Slice(s, b, e) == SubSeq(s, b + 1, e)

InRange(s, i) == 0 <= i /\ i < Len(s)

\* s[i] raises IndexError (a negative i counts from the end)
IndexError(s, i) == i < -Len(s) \/ i >= Len(s)

\* the character at i is in class S (False outside the string)
ClassAt(s, i, S) == InRange(s, i) /\ s[i + 1] \in S

\* str.isspace(), str.isalnum(), str.isdigit(), str.isupper()
isspace(s) == Len(s) > 0 /\ \A i \in 1..Len(s) : s[i] \in Whitespace
isalnum(s) == Len(s) > 0 /\ \A i \in 1..Len(s) : s[i] \in Alnum
isdigit(s) == Len(s) > 0 /\ \A i \in 1..Len(s) : s[i] \in Digits
isupper(s) == /\ \E i \in 1..Len(s) : s[i] \in UpperLetters
              /\ \A i \in 1..Len(s) : s[i] \notin LowerLetters

\* the end of the maximal run of characters of class S starting at i
RECURSIVE RunEnd(_, _, _)
RunEnd(s, i, S) == IF ClassAt(s, i, S) THEN RunEnd(s, i + 1, S) ELSE i

\* the end of the maximal run of characters outside class S starting at i
RECURSIVE RunEndNot(_, _, _)
RunEndNot(s, i, S) ==
    IF InRange(s, i) /\ s[i + 1] \notin S THEN RunEndNot(s, i + 1, S) ELSE i

\* s[i:i+len(p)] == p
StartsWithAt(s, i, p) ==
    /\ i >= 0
    /\ i + Len(p) <= Len(s)
    /\ \A k \in 1..Len(p) : s[i + k] = p[k]

Min(S) == CHOOSE x \in S : \A y \in S : x <= y
Max(S) == CHOOSE x \in S : \A y \in S : x >= y

----------------------------------------------------------------------------
(* elit.string_util *)

is_single_quote(c) == c = "'"
is_double_quote(c) == c = "\""
is_bracket(c) == c \in {"(", ")", "{", "}", "[", "]", "<", ">"}
is_arrow(c) == FALSE
is_hyphen(c) == c = "-"
is_currency(c) == c = "$"
is_final_mark(c) == c \in {".", "?", "!"}
Punctuation == {"!", "\"", "#", "$", "%", "&", "'", "(", ")", "*", "+", ",",
                "-", ".", "/", ":", ";", "<", "=", ">", "?", "@", "[", "\\",
                "]", "^", "_", "{", "|", "}", "~"}
is_punct(c) == c \in Punctuation

\* is_digit(token, i, j=None)
is_digit(token, i) == InRange(token, i) /\ At(token, i) \in Digits
is_digit_range(token, i, j) ==
    /\ InRange(token, i)
    /\ i < j /\ j <= Len(token)
    /\ isdigit(Slice(token, i, j))

----------------------------------------------------------------------------
(* Tokenizer.offsets and SpaceTokenizer *)

\* str.index(token, start): the lowest index >= start, or -1 for ValueError
RECURSIVE index(_, _, _)
index(txt, token, start) ==
    IF start + Len(token) > Len(txt) THEN -1
    ELSE IF StartsWithAt(txt, start, token) THEN start
    ELSE index(txt, token, start + 1)

\* offset with the search started at 0 instead of end
offset_from_start(txt, token, e) ==
    LET b == index(txt, token, 0)
    IN  [found |-> b >= 0, begin |-> b, end |-> b + Len(token)]

\* offset with the search started one past end
offset_past_end(txt, token, e) ==
    LET b == index(txt, token, e + 1)
    IN  [found |-> b >= 0, begin |-> b, end |-> b + Len(token)]

\* offset that looks from 0 again when nothing is found from end
offset_wrap_around(txt, token, e) ==
    LET b == IF index(txt, token, e) >= 0 THEN index(txt, token, e) ELSE index(txt, token, 0)
    IN  [found |-> b >= 0, begin |-> b, end |-> b + Len(token)]

\* the closure offset(token) with its nonlocal end
offset(txt, token, e) ==
    LET b == index(txt, token, e)
    IN  [found |-> b >= 0, begin |-> b, end |-> b + Len(token)]

\* [offset(token) for token in tokens], from end = 0
RECURSIVE offsets_from(_, _, _, _)
offsets_from(txt, toks, e, acc) ==
    IF toks = <<>> THEN [ok |-> TRUE, offsets |-> acc]
    ELSE LET o == offset(txt, Head(toks), e)
         IN  IF o.found
             THEN offsets_from(txt, Tail(toks), o.end, Append(acc, <<o.begin, o.end>>))
             ELSE [ok |-> FALSE, offsets |-> <<>>]

Tokenizer_offsets(txt, toks) == offsets_from(txt, toks, 0, <<>>)

\* str.split(): the runs between whitespace, empty pieces dropped
RECURSIVE split_from(_, _, _)
split_from(txt, i, acc) ==
    IF i >= Len(txt) THEN acc
    ELSE IF At(txt, i) \in Whitespace THEN split_from(txt, i + 1, acc)
    ELSE LET j == RunEndNot(txt, i, Whitespace)
         IN  split_from(txt, j, Append(acc, Slice(txt, i, j)))

\* str.split(' '): the pieces between single spaces, empty pieces kept
RECURSIVE split_on_space_from(_, _, _)
split_on_space_from(txt, i, acc) ==
    LET j == RunEndNot(txt, i, {" "})
    IN  IF j >= Len(txt) THEN Append(acc, Slice(txt, i, j))
        ELSE split_on_space_from(txt, j + 1, Append(acc, Slice(txt, i, j)))

split_on_space(txt) == split_on_space_from(txt, 0, <<>>)

split(txt) == split_from(txt, 0, <<>>)

\* SpaceTokenizer.tokenize as a function
SpaceTokenizer_tokenize(txt) ==
    LET toks == split(txt)
        r == Tokenizer_offsets(txt, toks)
    IN  [ok |-> r.ok, tokens |-> toks, offsets |-> r.offsets]

\* ' '.join(tokens)
RECURSIVE join(_)
join(toks) ==
    IF toks = <<>> THEN <<>>
    ELSE IF Len(toks) = 1 THEN toks[1]
    ELSE toks[1] \o <<" ">> \o join(Tail(toks))

----------------------------------------------------------------------------
(* The regular expressions of EnglishTokenizer.__init__.  X_at(t, i) is    *)
(* the end of the match re finds when it tries position i (the first       *)
(* success in its backtracking order), or -1; search takes the leftmost i. *)

NoMatch == [found |-> FALSE, start |-> -1, end |-> -1]

\* regex.search(t): the match at the leftmost position that has one
Search(t, EndAt(_, _)) ==
    LET S == {i \in 0..Len(t) - 1 : EndAt(t, i) >= 0}
    IN  IF S = {} THEN NoMatch
        ELSE [found |-> TRUE, start |-> Min(S), end |-> EndAt(t, Min(S))]

\* (\W|$) after a group ending at e
Boundary(t, e) == e = Len(t) \/ (InRange(t, e) /\ At(t, e) \notin WordChars)

Schemes == { <<"h","t","t","p">>, <<"h","t","t","p","s">>, <<"f","t","p">>,
             <<"s","f","t","p">>, <<"s","s","h">>, <<"s","s","l">>,
             <<"t","e","l","n","e","t">>, <<"s","m","t","p">>,
             <<"p","o","p","3">>, <<"i","m","a","p">>, <<"i","m","a","p","4">>,
             <<"s","i","p">> }

\* RE_NETWORK_PROTOCOL
protocol_at(t, i) ==
    LET S == {s \in Schemes : StartsWithAt(t, i, s \o <<":", "/", "/">>)}
    IN  IF S = {} THEN -1 ELSE i + Len(CHOOSE s \in S : TRUE) + 3

RE_NETWORK_PROTOCOL(t) == Search(t, protocol_at)

\* RE_HTML_ENTITY: &([A-Za-z]+|#[Xx]?\d+);
html_entity_at(t, i) ==
    IF ~ClassAt(t, i, {"&"}) THEN -1
    ELSE LET a == RunEnd(t, i + 1, Letters)
             x == IF ClassAt(t, i + 2, {"X", "x"}) THEN i + 3 ELSE i + 2
             d == RunEnd(t, x, Digits)
         IN  IF a > i + 1 /\ ClassAt(t, a, {";"}) THEN a + 1
             ELSE IF ClassAt(t, i + 1, {"#"}) /\ d > x /\ ClassAt(t, d, {";"}) THEN d + 1
             ELSE -1

RE_HTML_ENTITY(t) == Search(t, html_entity_at)

\* ([A-Za-z0-9\-]+\.)+ from p: the positions after 1, 2, ... labels
RECURSIVE LabelStops(_, _)
LabelStops(t, p) ==
    LET r == RunEnd(t, p, Alnum \cup {"-"})
    IN  IF r > p /\ ClassAt(t, r, {"."}) THEN {r + 1} \cup LabelStops(t, r + 1) ELSE {}

\* ([A-Za-z0-9\-]+\.)+[A-Za-z]{2,12}: most labels first, then most letters
domain_end(t, h) ==
    LET good == {p \in LabelStops(t, h) : RunEnd(t, p, Letters) - p >= 2}
    IN  IF good = {} THEN -1
        ELSE LET p == Max(good)
                 n == RunEnd(t, p, Letters) - p
             IN  p + (IF n > 12 THEN 12 ELSE n)

\* \d{1,3}\. from p: the position after the dot, or -1
quad_part(t, p) ==
    LET d == RunEnd(t, p, Digits)
    IN  IF p >= 0 /\ d > p /\ d - p <= 3 /\ ClassAt(t, d, {"."}) THEN d + 1 ELSE -1

\* \d{1,3}(\.\d{1,3}){3}
quad_end(t, h) ==
    LET p3 == quad_part(t, quad_part(t, quad_part(t, h)))
        n == RunEnd(t, p3, Digits) - p3
    IN  IF p3 < 0 \/ n = 0 THEN -1 ELSE p3 + (IF n > 3 THEN 3 ELSE n)

host_end(t, h) == IF domain_end(t, h) >= 0 THEN domain_end(t, h) ELSE quad_end(t, h)

\* RE_EMAIL: [\w\-\.]+(:\S+)?@(host)
email_at(t, i) ==
    LET r == RunEnd(t, i, WordChars \cup {"-", "."})
        ats == {a \in r + 2..Len(t) - 1 :
                   /\ At(t, a) = "@"
                   /\ RunEndNot(t, r + 1, Whitespace) >= a
                   /\ host_end(t, a + 1) >= 0}
    IN  IF r = i THEN -1
        ELSE IF ClassAt(t, r, {":"}) THEN (IF ats = {} THEN -1 ELSE host_end(t, Max(ats) + 1))
        ELSE IF ClassAt(t, r, {"@"}) THEN host_end(t, r + 1)
        ELSE -1

RE_EMAIL(t) == Search(t, email_at)

EmoticonMouth == {"3", "D", "O", "P", "p", "@", "$", "*", "(", ")", "\\", "/", "|"}

\* RE_EMOTICON, group 1: the four alternatives in order, each before (\W|$)
emoticon_at(t, i) ==
    LET w == RunEnd(t, i + 1, WordChars)
        b == IF ClassAt(t, i + 1, {"\\", "/"}) THEN i + 2 ELSE i + 1
        c == IF ClassAt(t, i + 1, {"-", "^"}) THEN i + 2 ELSE i + 1
        n == RunEnd(t, i + 1, {"-", "^"})
        m == RunEnd(t, n, EmoticonMouth)
        ds == {e \in n + 1..m : Boundary(t, e)}
    IN  IF /\ ClassAt(t, i, {":"}) /\ w > i + 1 /\ ClassAt(t, w, {":"})
           /\ Boundary(t, w + 1) THEN w + 1
        ELSE IF /\ ClassAt(t, i, {"<"}) /\ ClassAt(t, b, {"3"})
                /\ Boundary(t, b + 1) THEN b + 1
        ELSE IF /\ ClassAt(t, i, {"(", ")", "\\", "|", "*", "$"})
                /\ ClassAt(t, c, {":", "=", ";"})
                /\ Boundary(t, c + 1) THEN c + 1
        ELSE IF ClassAt(t, i, {":", "=", ";", "B", "8"}) /\ ds # {} THEN Max(ds)
        ELSE -1

RE_EMOTICON(t) == Search(t, emoticon_at)

Openers == {"[", "(", "{", "<"}
Closers == {"]", ")", "}", ">"}

\* (\.(\d+|[A-Za-z]))*([\]\)\}\>])+ from p
RECURSIVE after_marker(_, _)
after_marker(t, p) ==
    IF ClassAt(t, p, {"."})
    THEN IF RunEnd(t, p + 1, Digits) > p + 1 THEN after_marker(t, RunEnd(t, p + 1, Digits))
         ELSE IF ClassAt(t, p + 1, Letters) THEN after_marker(t, p + 2)
         ELSE -1
    ELSE IF ClassAt(t, p, Closers) THEN RunEnd(t, p, Closers)
    ELSE -1

\* (\d+[A-Za-z]?|[A-Za-z]\d*|\W+) from m, then after_marker
marker_end(t, m) ==
    LET d == RunEnd(t, m, Digits)
        w == RunEndNot(t, m, WordChars)
        ws == {e \in m + 1..w : after_marker(t, e) >= 0}
    IN  IF d > m
        THEN IF ClassAt(t, d, Letters) /\ after_marker(t, d + 1) >= 0
             THEN after_marker(t, d + 1)
             ELSE after_marker(t, d)
        ELSE IF ClassAt(t, m, Letters) THEN after_marker(t, RunEnd(t, m + 1, Digits))
        ELSE IF ws # {} THEN after_marker(t, Max(ws))
        ELSE -1

\* RE_LIST_ITEM: the longest run of opening brackets that lets the rest match
list_item_at(t, i) ==
    LET o == RunEnd(t, i, Openers)
        os == {k \in i + 1..o : marker_end(t, k) >= 0}
    IN  IF os = {} THEN -1 ELSE marker_end(t, Max(os))

RE_LIST_ITEM(t) == Search(t, list_item_at)

\* RE_APOSTROPHE, the end of group 1 for the letter at i (group 1 starts at i + 1)
apostrophe_at(t, i) ==
    LET two == IF i + 4 <= Len(t) THEN lower(Slice(t, i + 2, i + 4)) ELSE <<>>
        e == IF /\ ClassAt(t, i + 1, {"n", "N"}) /\ ClassAt(t, i + 2, {"'"})
                /\ ClassAt(t, i + 3, {"t", "T"}) THEN i + 4
             ELSE IF ~ClassAt(t, i + 1, {"'"}) THEN -1
             ELSE IF two \in {<<"l","l">>, <<"n","t">>, <<"r","e">>, <<"v","e">>} THEN i + 4
             ELSE IF ClassAt(t, i + 2, {"d","m","s","t","z","D","M","S","T","Z"}) THEN i + 3
             ELSE -1
    IN  IF ClassAt(t, i, Letters) /\ e >= 0 /\ Boundary(t, e) THEN e ELSE -1

\* RE_APOSTROPHE.search with the start of group 0 in place of that of group 1
RE_APOSTROPHE_group0(t) == Search(t, apostrophe_at)

\* m.start(1), m.end(1) of RE_APOSTROPHE.search
RE_APOSTROPHE(t) ==
    LET m == Search(t, apostrophe_at)
    IN  IF m.found THEN [m EXCEPT !.start = m.start + 1] ELSE m

\* RE_ABBREVIATION.match(s): [A-Za-z0-9]([\.-][A-Za-z0-9])*$
RE_ABBREVIATION(s) ==
    /\ Len(s) % 2 = 1
    /\ \A k \in 1..Len(s) : IF k % 2 = 1 THEN s[k] \in Alnum ELSE s[k] \in {".", "-"}

UnitSet ==
    {<<b>> : b \in {"m", "g"}}
    \cup {<<p, b>> : p \in {"a","c","d","f","k","m","n","p","y","z"}, b \in {"m", "g"}}
    \cup { <<"a",".","m">>, <<"p",".","m">>, <<"c","h">>, <<"c","w","t">>, <<"d">>,
           <<"d","r","c">>, <<"f","t">>, <<"f","u","r">>, <<"g","r">>, <<"h">>,
           <<"i","n">>, <<"l","b">>, <<"l","e","a">>, <<"m","i">>, <<"m","s">>,
           <<"o","z">>, <<"p","g">>, <<"q","t","r">>, <<"y","d">> }

\* RE_UNIT.search(t): m.start(2), or -1
RE_UNIT(t) ==
    LET S == {i \in 0..Len(t) - 2 :
                 At(t, i) \in Digits /\ lower(Slice(t, i + 1, Len(t))) \in UnitSet}
    IN  IF S = {} THEN -1 ELSE Min(S) + 1

\* RE_FINAL_MARK_IN_BETWEEN with search in place of match: the pattern is
\* looked for from every position, and the groups end where they end there
RE_FINAL_MARK_IN_BETWEEN_search(t) ==
    LET Ends(s) ==
            LET a == RunEnd(t, s, Letters)
                b == RunEnd(t, a, {".", "?", "!"})
                c == RunEnd(t, b, Letters)
            IN  [found |-> a - s >= 3 /\ b > a /\ c - b >= 3 /\ c = Len(t),
                 g1 |-> a, g2 |-> b, g3 |-> c]
        S == {s \in 0..Len(t) : Ends(s).found}
    IN  IF S = {} THEN Ends(0) ELSE Ends(Min(S))

\* RE_FINAL_MARK_IN_BETWEEN.match(t): the ends of groups 1, 2 and 3
RE_FINAL_MARK_IN_BETWEEN(t) ==
    LET a == RunEnd(t, 0, Letters)
        b == RunEnd(t, a, {".", "?", "!"})
        c == RunEnd(t, b, Letters)
    IN  [found |-> a >= 3 /\ b > a /\ c - b >= 3 /\ c = Len(t), g1 |-> a, g2 |-> b, g3 |-> c]

----------------------------------------------------------------------------
(* The tables read in EnglishTokenizer.__init__ (sample contents of the     *)
(* resource files) and kept in the object                                  *)

english_abbreviation_period == { <<"m","r">>, <<"d","r">> }
english_apostrophe_front == { <<"e","m">>, <<"t","i","s">> }
english_hyphen_prefix == { <<"c","o">>, <<"a","n","t","i">> }
english_hyphen_suffix == { <<"l","i","k","e">>, <<"f","r","e","e">> }

\* the lines of english_concat_words.txt
ConcatWordLines == { <<"c","a","n"," ","n","o","t">>, <<"g","o","n"," ","n","a">> }

\* the attributes of the object, read by the rules
SET_ABBREVIATION_PERIOD == tables.SET_ABBREVIATION_PERIOD
SET_APOSTROPHE_FRONT == tables.SET_APOSTROPHE_FRONT
SET_HYPHEN_PREFIX == tables.SET_HYPHEN_PREFIX
SET_HYPHEN_SUFFIX == tables.SET_HYPHEN_SUFFIX

\* str.replace(' ', '')
RECURSIVE remove_spaces(_)
remove_spaces(line) ==
    IF line = <<>> THEN <<>>
    ELSE IF Head(line) = " " THEN remove_spaces(Tail(line))
    ELSE <<Head(line)>> \o remove_spaces(Tail(line))

\* [i for i, c in enumerate(line) if c == ' '], then [i-o for o, i in enumerate(l)]
RECURSIVE space_offsets(_, _, _)
space_offsets(line, i, o) ==
    IF i >= Len(line) THEN <<>>
    ELSE IF At(line, i) = " " THEN <<i - o>> \o space_offsets(line, i + 1, o + 1)
    ELSE space_offsets(line, i + 1, o)

\* key_value(line) of read_concat_word_dict
key_value(line) ==
    LET key == remove_spaces(line)
    IN  <<key, Append(space_offsets(line, 0, 0), Len(key))>>

MAP_CONCAT_WORD_keys == {key_value(line)[1] : line \in ConcatWordLines}

\* dict(key_value(line.strip()) for line in open(filename))
read_concat_word_dict ==
    [w \in MAP_CONCAT_WORD_keys |->
        key_value(CHOOSE line \in ConcatWordLines : key_value(line)[1] = w)[2]]

\* line.strip()
strip(line) ==
    LET S == {i \in 1..Len(line) : line[i] \notin Whitespace}
    IN  IF S = {} THEN <<>> ELSE SubSeq(line, Min(S), Max(S))

\* read_concat_word_dict for a file with the one line given
read_concat_word_file(line) ==
    [w \in {key_value(strip(line))[1]} |-> key_value(strip(line))[2]]

\* the object after __init__
ResourceTables ==
    [SET_ABBREVIATION_PERIOD |-> english_abbreviation_period,
     SET_APOSTROPHE_FRONT |-> english_apostrophe_front,
     MAP_CONCAT_WORD |-> read_concat_word_dict,
     SET_HYPHEN_PREFIX |-> english_hyphen_prefix,
     SET_HYPHEN_SUFFIX |-> english_hyphen_suffix]

\* MAP_CONCAT_WORD.get(w, None); None is <<>>
MAP_CONCAT_WORD_get(w) ==
    IF w \in DOMAIN tables.MAP_CONCAT_WORD THEN tables.MAP_CONCAT_WORD[w] ELSE <<>>

----------------------------------------------------------------------------
(* add_token: concat_token, split_token, add_token_aux *)

add_token_aux(toks, offs, token, b, e) ==
    [tokens |-> Append(toks, token), offsets |-> Append(offs, <<b, e>>)]

apostrophe_front(prev, curr) ==
    Len(prev) = 1 /\ is_single_quote(prev[1]) /\ curr \in SET_APOSTROPHE_FRONT

\* abbreviation with the look-up in the set only
abbreviation_set_only(prev, curr) ==
    curr = <<".">> /\ prev \in SET_ABBREVIATION_PERIOD

abbreviation(prev, curr) ==
    curr = <<".">> /\ (RE_ABBREVIATION(prev) \/ prev \in SET_ABBREVIATION_PERIOD)

\* acronym for short neighbours only
acronym_short_only(prev, curr, next) ==
    /\ Len(curr) = 1
    /\ curr[1] \in {"&", "|", "/"}
    /\ Len(prev) <= 2 /\ Len(next) <= 2

acronym(prev, curr, next) ==
    /\ Len(curr) = 1
    /\ curr[1] \in {"&", "|", "/"}
    /\ \/ Len(prev) <= 2 /\ Len(next) <= 2
       \/ isupper(prev) /\ isupper(next)

\* hyphenated without the rule for letter-by-letter spelling
hyphenated_no_spelling(prev, curr, next) ==
    LET p == Len(prev)
    IN  IF Len(curr) = 1 /\ is_hyphen(curr[1])
        THEN \/ /\ is_digit_range(prev, p - 3, p)
                /\ (p = 3 \/ is_hyphen(At(prev, p - 4)))
                /\ isdigit(next)
             \/ prev \in SET_HYPHEN_PREFIX /\ isalnum(next)
             \/ next \in SET_HYPHEN_SUFFIX /\ isalnum(prev)
        ELSE FALSE

hyphenated(prev, curr, next) ==
    LET p == Len(prev)
    IN  IF Len(curr) = 1 /\ is_hyphen(curr[1])
        THEN \/ /\ is_digit_range(prev, p - 3, p)
                /\ (p = 3 \/ is_hyphen(At(prev, p - 4)))
                /\ isdigit(next)
             \/ /\ At(prev, p - 1) \in Alnum
                /\ (p = 1 \/ is_hyphen(At(prev, p - 2)))
                /\ Len(next) = 1
                /\ isalnum(next)
             \/ prev \in SET_HYPHEN_PREFIX /\ isalnum(next)
             \/ next \in SET_HYPHEN_SUFFIX /\ isalnum(prev)
        ELSE FALSE

\* the condition of no_dot_digit without the look at the candidate
no_dot_digit_cond_any_next(prev, curr, next) ==
    prev = <<"n","o">> /\ curr = <<".">>

no_dot_digit_cond(prev, curr, next) ==
    prev = <<"n","o">> /\ curr = <<".">> /\ next[1] \in Digits

\* hyphenated raises IndexError: prev[p-4], prev[-1] or prev[p-2], evaluated
\* in the order of the code, is outside prev
hyphenated_IndexError(prev, curr, next) ==
    LET p == Len(prev)
    IN  /\ Len(curr) = 1 /\ is_hyphen(curr[1])
        /\ \/ is_digit_range(prev, p - 3, p) /\ p # 3 /\ IndexError(prev, p - 4)
           \/ /\ ~(/\ is_digit_range(prev, p - 3, p)
                    /\ (p = 3 \/ is_hyphen(At(prev, p - 4)))
                    /\ isdigit(next))
              /\ \/ IndexError(prev, -1)
                 \/ At(prev, p - 1) \in Alnum /\ p # 1 /\ IndexError(prev, p - 2)

\* no_dot_digit raises IndexError: next[0] of an empty next
no_dot_digit_IndexError(prev, curr, next) ==
    prev = <<"n","o">> /\ curr = <<".">> /\ IndexError(next, 0)

\* concat_token raises IndexError in one of the rules it evaluates
concat_token_IndexError(toks, token) ==
    LET n == Len(toks)
    IN  /\ n >= 2
        /\ ~apostrophe_front(lower(toks[n]), lower(token))
        /\ ~abbreviation(lower(toks[n]), lower(token))
        /\ ~acronym(toks[n - 1], lower(toks[n]), token)
        /\ \/ hyphenated_IndexError(lower(toks[n - 1]), lower(toks[n]), lower(token))
           \/ /\ ~hyphenated(lower(toks[n - 1]), lower(toks[n]), lower(token))
              /\ no_dot_digit_IndexError(lower(toks[n - 1]), lower(toks[n]), lower(token))

\* no_dot_digit without offsets.pop()
no_dot_digit_keep_offset(toks, offs) ==
    LET n == Len(toks)
    IN  [tokens  |-> Append(SubSeq(toks, 1, n - 2), toks[n - 1] \o toks[n]),
         offsets |-> offs]

\* the body of no_dot_digit when its condition holds
no_dot_digit_pop(toks, offs) ==
    LET n == Len(toks)
    IN  [tokens  |-> Append(SubSeq(toks, 1, n - 2), toks[n - 1] \o toks[n]),
         offsets |-> Append(SubSeq(offs, 1, n - 2), <<offs[n - 1][1], offs[n][2]>>)]

\* the merge with the token taken as the text between the widened offsets
merge_one_text_slice(toks, offs, token, e) ==
    LET n == Len(toks)
    IN  [tokens  |-> [toks EXCEPT ![n] = Slice(text, offs[n][1], e)],
         offsets |-> [offs EXCEPT ![n] = <<offs[n][1], e>>]]

\* tokens[-1] += token; offsets[-1] = (offsets[-1][0], end)
merge_one(toks, offs, token, e) ==
    LET n == Len(toks)
    IN  [tokens  |-> [toks EXCEPT ![n] = toks[n] \o token],
         offsets |-> [offs EXCEPT ![n] = <<offs[n][1], e>>]]

\* the merge of three without del tokens[-1], del offsets[-1]
merge_two_no_del(toks, offs, token, e) ==
    LET n == Len(toks)
    IN  [tokens  |-> [toks EXCEPT ![n - 1] = toks[n - 1] \o toks[n] \o token],
         offsets |-> [offs EXCEPT ![n - 1] = <<offs[n - 1][1], e>>]]

\* tokens[-2] += tokens[-1] + token; offsets[-2] = (offsets[-2][0], end); del [-1]
merge_two(toks, offs, token, e) ==
    LET n == Len(toks)
    IN  [tokens  |-> Append(SubSeq(toks, 1, n - 2), toks[n - 1] \o toks[n] \o token),
         offsets |-> Append(SubSeq(offs, 1, n - 2), <<offs[n - 1][1], e>>)]

\* concat_token that returns what no_dot_digit returns
concat_token_return_no_dot_digit(toks, offs, token, b, e) ==
    LET n == Len(toks)
        same == [tokens |-> toks, offsets |-> offs]
    IN  IF /\ n >= 1
           /\ \/ apostrophe_front(lower(toks[n]), lower(token))
              \/ abbreviation(lower(toks[n]), lower(token))
        THEN [merged |-> TRUE, lists |-> merge_one(toks, offs, token, e)]
        ELSE IF n < 2 THEN [merged |-> FALSE, lists |-> same]
        ELSE IF \/ acronym(toks[n - 1], lower(toks[n]), token)
                \/ hyphenated(lower(toks[n - 1]), lower(toks[n]), lower(token))
        THEN [merged |-> TRUE, lists |-> merge_two(toks, offs, token, e)]
        ELSE IF no_dot_digit_cond(lower(toks[n - 1]), lower(toks[n]), lower(token))
        THEN [merged |-> TRUE, lists |-> no_dot_digit_pop(toks, offs)]
        ELSE [merged |-> FALSE, lists |-> same]

\* concat_token: merged is its return value, tokens and offsets the lists after it
concat_token(toks, offs, token, b, e) ==
    LET n == Len(toks)
        same == [tokens |-> toks, offsets |-> offs]
    IN  IF /\ n >= 1
           /\ \/ apostrophe_front(lower(toks[n]), lower(token))
              \/ abbreviation(lower(toks[n]), lower(token))
        THEN [merged |-> TRUE, lists |-> merge_one(toks, offs, token, e)]
        ELSE IF n < 2 THEN [merged |-> FALSE, lists |-> same]
        ELSE IF \/ acronym(toks[n - 1], lower(toks[n]), token)
                \/ hyphenated(lower(toks[n - 1]), lower(toks[n]), lower(token))
        THEN [merged |-> TRUE, lists |-> merge_two(toks, offs, token, e)]
        ELSE IF no_dot_digit_cond(lower(toks[n - 1]), lower(toks[n]), lower(token))
        THEN [merged |-> FALSE, lists |-> no_dot_digit_pop(toks, offs)]
        ELSE [merged |-> FALSE, lists |-> same]

\* unit() with the digit before the unit put into the second piece
split_unit_with_digit(toks, offs, token, b, e) ==
    LET u == RE_UNIT(token) - 1
        l == add_token_aux(toks, offs, Slice(token, 0, u), b, b + u)
    IN  add_token_aux(l.tokens, l.offsets, Slice(token, u, Len(token)), b + u, e)

\* unit() that gives its first piece to concat_token before appending it
split_unit_merging(toks, offs, token, b, e) ==
    LET u == RE_UNIT(token)
        c == concat_token(toks, offs, Slice(token, 0, u), b, b + u)
        l == IF c.merged THEN c.lists
             ELSE add_token_aux(c.lists.tokens, c.lists.offsets, Slice(token, 0, u), b, b + u)
    IN  add_token_aux(l.tokens, l.offsets, Slice(token, u, Len(token)), b + u, e)

\* unit() of split_token
split_unit(toks, offs, token, b, e) ==
    LET u == RE_UNIT(token)
        l == add_token_aux(toks, offs, Slice(token, 0, u), b, b + u)
    IN  add_token_aux(l.tokens, l.offsets, Slice(token, u, Len(token)), b + u, e)

\* the loop of concat_words() over the table entry t, from i
RECURSIVE split_concat_words(_, _, _, _, _, _)
split_concat_words(toks, offs, token, b, t, i) ==
    IF t = <<>> THEN [tokens |-> toks, offsets |-> offs]
    ELSE LET j == Head(t)
             l == add_token_aux(toks, offs, Slice(token, i, j), b + i, b + j)
         IN  split_concat_words(l.tokens, l.offsets, token, b, Tail(t), j)

\* final_mark() of split_token
split_final_mark(toks, offs, token, b, e) ==
    LET m == RE_FINAL_MARK_IN_BETWEEN(token)
        l1 == add_token_aux(toks, offs, Slice(token, 0, m.g1), b, b + m.g1)
        l2 == add_token_aux(l1.tokens, l1.offsets, Slice(token, m.g1, m.g2), b + m.g1, b + m.g2)
    IN  add_token_aux(l2.tokens, l2.offsets, Slice(token, m.g2, m.g3), b + m.g2, b + m.g3)

\* split_token: split is its return value
split_token(toks, offs, token, b, e) ==
    IF RE_UNIT(token) >= 0
    THEN [split |-> TRUE, lists |-> split_unit(toks, offs, token, b, e)]
    ELSE IF MAP_CONCAT_WORD_get(lower(token)) # <<>>
    THEN [split |-> TRUE,
          lists |-> split_concat_words(toks, offs, token, b, MAP_CONCAT_WORD_get(lower(token)), 0)]
    ELSE IF RE_FINAL_MARK_IN_BETWEEN(token).found
    THEN [split |-> TRUE, lists |-> split_final_mark(toks, offs, token, b, e)]
    ELSE [split |-> FALSE, lists |-> [tokens |-> toks, offsets |-> offs]]

\* add_token: the lists after the call
add_token(toks, offs, token, b, e) ==
    LET c == concat_token(toks, offs, token, b, e)
        s == split_token(c.lists.tokens, c.lists.offsets, token, b, e)
    IN  IF c.merged THEN c.lists
        ELSE IF s.split THEN s.lists
        ELSE add_token_aux(c.lists.tokens, c.lists.offsets, token, b, e)

----------------------------------------------------------------------------
(* tokenize_aux: tokenize_trivial, tokenize_regex, tokenize_symbol *)

\* a pending call tokenize_aux(tokens, offsets, text, b, e); from is the
\* (begin, end) of the tokenize_aux that makes it, <<>> when tokenize makes it.
\* up is the number of frames from the caller to the call: tokenize calls it
\* directly, a tokenize_aux through tokenize_regex/tokenize_symbol and
\* group/hyperlink/split.  depth is the depth of its frame, set when pushed.
AuxCall(b, e, from) ==
    [op |-> "tokenize_aux", token |-> <<>>, begin |-> b, end |-> e, from |-> from,
     up |-> IF from = <<>> THEN 1 ELSE 3, depth |-> 0]

\* a pending call add_token(tokens, offsets, token, b, e) made by group,
\* hyperlink or split
AddCall(token, b, e) ==
    [op |-> "add_token", token |-> token, begin |-> b, end |-> e, from |-> <<>>,
     up |-> 3, depth |-> 0]

\* the calls as made by a frame at depth d
Deepen(calls, d) ==
    [k \in 1..Len(calls) |-> [calls[k] EXCEPT !.depth = d + calls[k].up]]

tokenize_trivial(token, b, e) == e - b = 1 \/ isalnum(token)

\* group with the right remainder started at the match instead of after it
group_from_match(txt, b, e, m) ==
    << AuxCall(b, b + m.start, <<b, e>>),
       AddCall(Slice(txt, b + m.start, b + m.end), b + m.start, b + m.end),
       AuxCall(b + m.start, e, <<b, e>>) >>

\* group(regex, gid) for the match m: the three calls it makes, in order
group(txt, b, e, m) ==
    << AuxCall(b, b + m.start, <<b, e>>),
       AddCall(Slice(txt, b + m.start, b + m.end), b + m.start, b + m.end),
       AuxCall(b + m.end, e, <<b, e>>) >>

\* hyperlink() for the match m
hyperlink(txt, b, e, m) ==
    IF m.start > 0
    THEN << AuxCall(b, b + m.start, <<b, e>>),
            AddCall(Slice(txt, b + m.start, e), b + m.start, e) >>
    ELSE << AddCall(Slice(txt, b, e), b, e) >>

\* tokenize_regex with the apostrophe pattern tried first
tokenize_regex_apostrophe_first(txt, b, e, token) ==
    IF RE_APOSTROPHE(token).found THEN group(txt, b, e, RE_APOSTROPHE(token))
    ELSE IF RE_HTML_ENTITY(token).found THEN group(txt, b, e, RE_HTML_ENTITY(token))
    ELSE IF RE_EMAIL(token).found THEN group(txt, b, e, RE_EMAIL(token))
    ELSE IF RE_NETWORK_PROTOCOL(token).found THEN hyperlink(txt, b, e, RE_NETWORK_PROTOCOL(token))
    ELSE IF RE_EMOTICON(token).found THEN group(txt, b, e, RE_EMOTICON(token))
    ELSE IF RE_LIST_ITEM(token).found THEN group(txt, b, e, RE_LIST_ITEM(token))
    ELSE <<>>

\* tokenize_regex: the calls made by the first pattern that matches, or <<>>
tokenize_regex(txt, b, e, token) ==
    IF RE_HTML_ENTITY(token).found THEN group(txt, b, e, RE_HTML_ENTITY(token))
    ELSE IF RE_EMAIL(token).found THEN group(txt, b, e, RE_EMAIL(token))
    ELSE IF RE_NETWORK_PROTOCOL(token).found THEN hyperlink(txt, b, e, RE_NETWORK_PROTOCOL(token))
    ELSE IF RE_EMOTICON(token).found THEN group(txt, b, e, RE_EMOTICON(token))
    ELSE IF RE_LIST_ITEM(token).found THEN group(txt, b, e, RE_LIST_ITEM(token))
    ELSE IF RE_APOSTROPHE(token).found THEN group(txt, b, e, RE_APOSTROPHE(token))
    ELSE <<>>

\* index_last_sequence that stops after one character
index_last_sequence_one(token, i, c) == i + 1

\* index_last_sequence(i, c): the end of the run of c, or of final marks,
\* that starts at i
index_last_sequence(token, i, c) ==
    IF is_final_mark(c) THEN RunEnd(token, i + 1, {".", "?", "!"})
    ELSE RunEnd(token, i + 1, {c})

skip(token, i, c) ==
    IF c = "." \/ c = "+" THEN is_digit(token, i + 1)
    ELSE IF c = "-" THEN i = 0 /\ is_digit(token, i + 1)
    ELSE IF c = "," THEN /\ is_digit(token, i - 1)
                         /\ is_digit_range(token, i + 1, i + 4)
                         /\ ~is_digit(token, i + 4)
    ELSE IF c = ":" THEN is_digit(token, i - 1) /\ is_digit(token, i + 1)
    ELSE IF is_single_quote(c) THEN /\ is_digit_range(token, i + 1, i + 3)
                                    /\ ~is_digit(token, i + 3)
    ELSE FALSE

separator_0(c) ==
    \/ c \in {",", ";", ":", "~", "&", "|", "/"}
    \/ is_bracket(c) \/ is_arrow(c) \/ is_double_quote(c) \/ is_hyphen(c)

edge_symbol_0(c) == is_single_quote(c) \/ is_final_mark(c)

currency_like_0(c) == c = "#" \/ is_currency(c)

\* edge_symbol_1 without the look at the neighbours of the run
edge_symbol_1_no_punct(token, i, j) ==
    \/ i + 1 < j
    \/ i = 0
    \/ j = Len(token)

edge_symbol_1(token, i, j) ==
    \/ i + 1 < j
    \/ i = 0
    \/ j = Len(token)
    \/ is_punct(At(token, i - 1))
    \/ is_punct(At(token, j))

\* currency_like_1 without the look at the character after the run
currency_like_1_no_digit(token, i, j) ==
    i + 1 < j \/ j = Len(token)

currency_like_1(token, i, j) ==
    i + 1 < j \/ j = Len(token) \/ At(token, j) \in Digits

\* edge_symbol_1 raises IndexError: token[i - 1] or token[j] is outside token
edge_symbol_1_IndexError(token, i, j) ==
    /\ ~(i + 1 < j) /\ i # 0 /\ j # Len(token)
    /\ \/ IndexError(token, i - 1)
       \/ ~is_punct(At(token, i - 1)) /\ IndexError(token, j)

\* currency_like_1 raises IndexError: token[j] is outside token
currency_like_1_IndexError(token, i, j) ==
    ~(i + 1 < j) /\ j # Len(token) /\ IndexError(token, j)

\* the body of the loop of tokenize_symbol at i raises IndexError
symbol_at_IndexError(token, i) ==
    LET c == At(token, i)
        j == index_last_sequence(token, i, c)
    IN  /\ ~skip(token, i, c)
        /\ ~separator_0(c)
        /\ \/ edge_symbol_0(c) /\ edge_symbol_1_IndexError(token, i, j)
           \/ /\ ~(edge_symbol_0(c) /\ edge_symbol_1(token, i, j))
              /\ currency_like_0(c)
              /\ currency_like_1_IndexError(token, i, j)

\* the body of the loop of tokenize_symbol at i: the j of the split made, or -1
symbol_at(token, i) ==
    LET c == At(token, i)
        j == index_last_sequence(token, i, c)
    IN  IF skip(token, i, c) THEN -1
        ELSE IF separator_0(c) THEN j
        ELSE IF edge_symbol_0(c) /\ edge_symbol_1(token, i, j) THEN j
        ELSE IF currency_like_0(c) /\ currency_like_1(token, i, j) THEN j
        ELSE -1

\* tokenize_symbol: the calls of the first split(i, c, p0, p1) that splits, or <<>>
tokenize_symbol(txt, b, e, token) ==
    LET m == Search(token, symbol_at)
    IN  IF m.found THEN group(txt, b, e, m) ELSE <<>>

\* tokenize_symbol raises IndexError at the first position it gets to
tokenize_symbol_IndexError(token) ==
    \E i \in 0..Len(token) - 1 :
        /\ symbol_at_IndexError(token, i)
        /\ \A k \in 0..i - 1 : symbol_at(token, k) = -1

\* tokenize_aux on a non-empty range raises IndexError
tokenize_aux_IndexError(txt, b, e) ==
    LET token == Slice(txt, b, e)
    IN  /\ ~tokenize_trivial(token, b, e)
        /\ tokenize_regex(txt, b, e, token) = <<>>
        /\ tokenize_symbol_IndexError(token)

\* the interpreter raises RecursionError for a frame deeper than this
\* (sys.getrecursionlimit(), 1000 unless the program changes it)
RecursionLimit == 1000

\* the depth of the frame of tokenize when the top level of a program calls it
TokenizeDepth == 2

\* tokenize_aux with tokenize_symbol tried before tokenize_regex
tokenize_aux_symbol_first(txt, b, e) ==
    LET token == Slice(txt, b, e)
    IN  IF tokenize_trivial(token, b, e) THEN << [AddCall(token, b, e) EXCEPT !.up = 2] >>
        ELSE IF tokenize_symbol(txt, b, e, token) # <<>> THEN tokenize_symbol(txt, b, e, token)
        ELSE IF tokenize_regex(txt, b, e, token) # <<>> THEN tokenize_regex(txt, b, e, token)
        ELSE << [AddCall(token, b, e) EXCEPT !.up = 1] >>

\* tokenize_aux on a non-empty range: the calls it makes, in order
tokenize_aux(txt, b, e) ==
    LET token == Slice(txt, b, e)
    IN  IF tokenize_trivial(token, b, e) THEN << [AddCall(token, b, e) EXCEPT !.up = 2] >>
        ELSE IF tokenize_regex(txt, b, e, token) # <<>> THEN tokenize_regex(txt, b, e, token)
        ELSE IF tokenize_symbol(txt, b, e, token) # <<>> THEN tokenize_symbol(txt, b, e, token)
        ELSE << [AddCall(token, b, e) EXCEPT !.up = 1] >>

----------------------------------------------------------------------------
(* The inputs *)

MaxLen == 4
MaxOffsetsLen == 3
MaxArgTokens == 2

SeqsUpTo(S, n) == UNION {[1..k -> S] : k \in 0..n}

\* every text over these characters up to MaxLen is tokenized
Alphabet == {" ", "m", "8", ".", "-", "'", "/"}

Examples == {
    <<"H","e","l","l","o",","," ","w","o","r","l","d","!">>,   \* Hello, world!
    <<"d","o","n","'","t"," ","s","t","o","p">>,   \* don't stop
    <<"U",".","S","."," ","g","o","v","e","r","n","m","e","n","t">>,   \* U.S. government
    <<"j","i","n","h","o","@","e","l","i","t",".","c","l","o","u","d"," ","s","e","n","t"," ","i","t">>,   \* jinho@elit.cloud sent it
    <<"1","0","k","g"," ","o","f"," ","r","i","c","e">>,   \* 10kg of rice
    <<"(","1","a",")"," ","f","i","r","s","t"," ","i","t","e","m">>,   \* (1a) first item
    <<"'"," ","e","m">>,   \* ' em
    <<"n","o","."," ","1">>,   \* no. 1
    <<"A","T"," ","&"," ","T">>,   \* AT & T
    <<"4","0","4","-","5","5","5","-","1","2","3","4">>,   \* 404-555-1234
    <<"p","-","u","-","s","-","h">>,   \* p-u-s-h
    <<"c","a","n","n","o","t">>,   \* cannot
    <<"h","e","l","l","o",".","W","o","r","l","d">>,   \* hello.World
    <<"x"," ","h","t","t","p",":","/","/","a",".","b">>,   \* x http://a.b
    <<"c","o"," ","-"," ","o","p">>,   \* co - op
    <<"8"," ","m","m">>,   \* 8 mm
    <<"a","'","s","&","a",";">>,   \* a's&a;
    <<"1",":","3">>,   \* 1:3
    <<"1",",","0","8","3">>,   \* 1,083
    <<"1",",","0","0","0">>,   \* 1,000
    <<"1",",","0","0","0",",","0","0","0">>,   \* 1,000,000
    <<"1",":","2">>,   \* 1:2
    <<"-","1">>,   \* -1
    <<".","5">>,   \* .5
    <<"'","9","7">>,   \* '97
    <<"h","t","t","p",":","/","/","a",".","b","/","5","m">>,   \* http://a.b/5m
    <<"a","h","t","t","p",":","/","/","a",".","b">>,   \* ahttp://a.b
    <<"5","K","G">>,   \* 5KG
    <<"m","-","-","m">>,   \* m--m
    <<"M","r","."," ","m">>,   \* Mr. m
    <<":",")"," ","m">>,   \* :) m
    <<"U",".","S">>,   \* U.S
    <<"m","%",".","m">>,   \* m%.m
    <<"m","#","8">>,   \* m#8
    <<"#","m">>,   \* #m
    <<"#","#","m">>,   \* ##m
    <<"m","#">>,   \* m#
    <<"m","#","m">>,   \* m#m
    <<"$","8">>,   \* $8
    <<"$","m">>,   \* $m
    <<"m","$","$","m">>,   \* m$$m
    <<"n","o","."," ","5","k","g">>,   \* no. 5kg
    <<"I","B","M","/","A","T","T">>,   \* IBM/ATT
    <<"I","B","M","/","a","t","t">>,   \* IBM/att
    <<"m","m","m","/","m","m","m">>,   \* mmm/mmm
    <<"m","m","-","l","i","k","e">>,   \* mm-like
    <<"A","n","t","i","-","M","M">>,   \* Anti-MM
    <<"1","2","3","4","-","5","5","5">>,   \* 1234-555
    <<"n","o","."," ","m">>,   \* no. m
    <<"N","o","."," ","5">>,   \* No. 5
    <<"m"," ","n","o","."," ","1">>,   \* m no. 1
    <<"1","h","e","l","l","o",".","W","o","r","l","d">>,   \* 1hello.World
    <<"h","e","l","l","o","?","!","W","o","r","l","d">>   \* hello?!World
}

Texts == SeqsUpTo(Alphabet, MaxLen) \cup Examples

\* the lines that a file of concatenated words is made of: words of the
\* letters a and b with spaces between, before and after them
MaxLineLen == 4
TableLines ==
    SeqsUpTo({"a", "b", " "}, MaxLineLen) \cup ConcatWordLines
    \cup { <<"1"," ","0","m">>,   \* a word that ends with a digit and a unit
           <<"a","a","a",".","b"," ","b","b">> }   \* a word with a mark in it

\* texts that have the word of the line in them, also capitalised
Capitalised(s) ==
    [i \in 1..Len(s) |->
        IF i = 1 /\ s[i] \in LowerLetters
        THEN UpperSeq[CHOOSE k \in 1..26 : LowerSeq[k] = s[i]] ELSE s[i]]
TableTexts(line) ==
    LET w == remove_spaces(line)
    IN  {w, Capitalised(w), <<"m", " ">> \o w, w \o <<" ", "m">>,
         <<"h","e","l","l","o",".","W","o","r","l","d">>,
         <<"1","h","e","l","l","o",".","W","o","r","l","d">>,
         <<"a","a","a","?","!","b","b","b">>}

\* a span of DeepLen separators, each other than the one before it: every
\* one is split off by a tokenize_aux inside the tokenize_aux of the one before
DeepLen == 333
DeepText == [i \in 1..DeepLen |-> IF i % 2 = 1 THEN "," ELSE ";"]
DepthTexts == {DeepText, <<",", ";", " ", "m">>, <<"m", ",", "m", ";", "m">>}

\* texts whose result depends on the tokens before the candidate (m . merges)
\* and on the table of concatenated words (cannot)
PureTexts == { <<"m">>, <<".">>, <<"m", " ", ".">>, <<"c","a","n","n","o","t">> }

\* the example of the docstring of Tokenizer.offsets
DocText == <<"H","e","l","l","o",","," ","w","o","r","l","d","!">>
DocTokens == << <<"H","e","l","l","o">>, <<",">>, <<"w","o","r","l","d">>, <<"!">> >>

OffsetsAlphabet == {" ", "a", "."}
OffsetsTexts == SeqsUpTo(OffsetsAlphabet, MaxOffsetsLen) \cup {DocText}
ArgVocabulary == { <<>>, <<"a">>, <<".">>, <<"a",".">>, <<".","a">> }
ArgLists(txt) ==
    SeqsUpTo(ArgVocabulary, MaxArgTokens) \cup (IF txt = DocText THEN {DocTokens} ELSE {})

----------------------------------------------------------------------------
(* The calls *)

\* the locals of a call of tokenize that has not begun
NoCall(txt) ==
    [call |-> "none", pc |-> "idle", text |-> txt, tokens |-> <<>>, offsets |-> <<>>,
     begin |-> 0, last |-> 0, end |-> 0, stack |-> <<>>]

\* the locals of the running call
Locals ==
    [call |-> call, pc |-> pc, text |-> text, tokens |-> tokens, offsets |-> offsets,
     begin |-> begin, last |-> last, end |-> end, stack |-> stack]

\* a constructed tokenizer and a call on txt that has not begun
Idle(txt) ==
    /\ call = "none" /\ pc = "idle" /\ text = txt
    /\ arg = <<>> /\ tokens = <<>> /\ offsets = <<>>
    /\ begin = 0 /\ last = 0 /\ end = 0 /\ stack = <<>>
    /\ tables = ResourceTables
    /\ other = NoCall(<<>>)

Init == \E txt \in Texts : Idle(txt)

OffsetsInit == \E txt \in OffsetsTexts : Idle(txt)

\* tokenize without tokens = [], offsets = []: the lists of the call before
Tokenize_keep_lists ==
    /\ pc = "idle"
    /\ call' = "EnglishTokenizer"
    /\ IF text = <<>> \/ isspace(text)
       THEN pc' = "done" /\ UNCHANGED <<begin, last, end>>
       ELSE /\ pc' = "loop"
            /\ begin' = RunEnd(text, 0, Whitespace)
            /\ last' = Max({i \in 1..Len(text) : text[i] \notin Whitespace})
            /\ end' = RunEnd(text, 0, Whitespace) + 1
    /\ UNCHANGED <<text, arg, stack, tokens, offsets, tables, other>>

\* EnglishTokenizer.tokenize, up to the loop
Tokenize ==
    /\ pc = "idle"
    /\ call' = "EnglishTokenizer"
    /\ tokens' = <<>>
    /\ offsets' = <<>>
    /\ IF text = <<>> \/ isspace(text)
       THEN pc' = "done" /\ UNCHANGED <<begin, last, end>>
       ELSE /\ pc' = "loop"
            /\ begin' = RunEnd(text, 0, Whitespace)
            /\ last' = Max({i \in 1..Len(text) : text[i] \notin Whitespace})
            /\ end' = RunEnd(text, 0, Whitespace) + 1
    /\ UNCHANGED <<text, arg, stack>>
    /\ UNCHANGED <<tables, other>>

\* the loop of tokenize, to its next call of tokenize_aux
TokenizeLoop ==
    /\ pc = "loop" /\ stack = <<>>
    /\ LET ws == {k \in end..last - 1 : At(text, k) \in Whitespace}
       IN  /\ ws # {}
           /\ stack' = Deepen(<< AuxCall(begin, Min(ws), <<>>) >>, TokenizeDepth)
           /\ begin' = Min(ws) + 1
           /\ end' = Min(ws) + 1
    /\ UNCHANGED <<call, pc, text, arg, tokens, offsets, last>>
    /\ UNCHANGED <<tables, other>>

\* the call of tokenize_aux after the loop
TokenizeLast ==
    /\ pc = "loop" /\ stack = <<>>
    /\ {k \in end..last - 1 : At(text, k) \in Whitespace} = {}
    /\ stack' = Deepen(<< AuxCall(begin, last, <<>>) >>, TokenizeDepth)
    /\ pc' = "final"
    /\ end' = last
    /\ UNCHANGED <<call, text, arg, tokens, offsets, begin, last>>
    /\ UNCHANGED <<tables, other>>

\* one call of tokenize_aux; an exception (RecursionError for a frame beyond
\* the limit, IndexError) is caught nowhere and ends tokenize
TokenizeAux ==
    /\ stack # <<>> /\ Head(stack).op = "tokenize_aux"
    /\ LET f == Head(stack)
           empty == f.begin >= f.end \/ f.end > Len(text)
       IN  IF \/ f.depth > RecursionLimit
              \/ ~empty /\ tokenize_aux_IndexError(text, f.begin, f.end)
           THEN pc' = "raised" /\ stack' = <<>>
           ELSE /\ pc' = pc
                /\ stack' = IF empty THEN Tail(stack)
                             ELSE Deepen(tokenize_aux(text, f.begin, f.end), f.depth)
                                  \o Tail(stack)
    /\ UNCHANGED <<call, text, arg, tokens, offsets, begin, last, end>>
    /\ UNCHANGED <<tables, other>>

\* one call of add_token; it calls concat_token, and that apostrophe_front
\* when there are tokens, or split_token and that unit: two frames deeper
AddToken ==
    /\ stack # <<>> /\ Head(stack).op = "add_token"
    /\ LET f == Head(stack)
           l == add_token(tokens, offsets, f.token, f.begin, f.end)
       IN  IF \/ f.depth + 2 > RecursionLimit
              \/ concat_token_IndexError(tokens, f.token)
           THEN pc' = "raised" /\ stack' = <<>> /\ UNCHANGED <<tokens, offsets>>
           ELSE /\ pc' = pc
                /\ stack' = Tail(stack)
                /\ tokens' = l.tokens /\ offsets' = l.offsets
    /\ UNCHANGED <<call, text, arg, begin, last, end>>
    /\ UNCHANGED <<tables, other>>

\* return tokens, offsets
TokenizeReturn ==
    /\ pc = "final" /\ stack = <<>>
    /\ pc' = "done"
    /\ UNCHANGED <<call, text, arg, tokens, offsets, begin, last, end, stack>>
    /\ UNCHANGED <<tables, other>>

\* SpaceTokenizer.tokenize
SpaceTokenize ==
    /\ pc = "idle"
    /\ call' = "SpaceTokenizer"
    /\ LET r == SpaceTokenizer_tokenize(text)
       IN  /\ tokens' = r.tokens
           /\ offsets' = r.offsets
           /\ pc' = IF r.ok THEN "done" ELSE "raised"
    /\ UNCHANGED <<text, arg, begin, last, end, stack>>
    /\ UNCHANGED <<tables, other>>

\* Tokenizer.offsets(text, tokens): end = 0
OffsetsCall ==
    /\ pc = "idle"
    /\ \E toks \in ArgLists(text) : arg' = toks
    /\ call' = "offsets"
    /\ pc' = "run"
    /\ end' = 0
    /\ offsets' = <<>>
    /\ UNCHANGED <<text, tokens, begin, last, stack>>
    /\ UNCHANGED <<tables, other>>

\* offset(token) for the next token of the list
Offset ==
    /\ pc = "run" /\ Len(offsets) < Len(arg)
    /\ LET o == offset(text, arg[Len(offsets) + 1], end)
       IN  IF o.found
           THEN /\ end' = o.end
                /\ offsets' = Append(offsets, <<o.begin, o.end>>)
                /\ pc' = pc
           ELSE pc' = "raised" /\ UNCHANGED <<end, offsets>>
    /\ UNCHANGED <<call, text, arg, tokens, begin, last, stack>>
    /\ UNCHANGED <<tables, other>>

\* the list is complete
OffsetsReturn ==
    /\ pc = "run" /\ Len(offsets) = Len(arg)
    /\ pc' = "done"
    /\ UNCHANGED <<call, text, arg, tokens, offsets, begin, last, end, stack>>
    /\ UNCHANGED <<tables, other>>

Next ==
    \/ Tokenize
    \/ TokenizeLoop
    \/ TokenizeLast
    \/ TokenizeAux
    \/ AddToken
    \/ TokenizeReturn
    \/ SpaceTokenize

Spec == Init /\ [][Next]_vars

\* two calls of tokenize on the same object take turns: the running call is
\* suspended with its locals and the other goes on with its own
Switch ==
    /\ call \in {"none", "EnglishTokenizer"}
    /\ other' = Locals
    /\ call' = other.call /\ pc' = other.pc /\ text' = other.text
    /\ tokens' = other.tokens /\ offsets' = other.offsets
    /\ begin' = other.begin /\ last' = other.last /\ end' = other.end
    /\ stack' = other.stack
    /\ UNCHANGED <<arg, tables>>

\* after a call has returned or raised, its caller makes a new call on the
\* same object
Again ==
    /\ call = "EnglishTokenizer" /\ pc \in {"done", "raised"}
    /\ call' = "none" /\ pc' = "idle"
    /\ \E txt \in PureTexts : text' = txt
    /\ UNCHANGED <<arg, tokens, offsets, begin, last, end, stack, tables, other>>

\* calls of EnglishTokenizer.tokenize on one object, one after another and
\* interleaved
PureInit ==
    \E txt \in PureTexts, txt2 \in PureTexts :
        /\ call = "none" /\ pc = "idle" /\ text = txt
        /\ arg = <<>> /\ tokens = <<>> /\ offsets = <<>>
        /\ begin = 0 /\ last = 0 /\ end = 0 /\ stack = <<>>
        /\ tables = ResourceTables
        /\ other = NoCall(txt2)

PureNext ==
    \/ Tokenize
    \/ TokenizeLoop
    \/ TokenizeLast
    \/ TokenizeAux
    \/ AddToken
    \/ TokenizeReturn
    \/ Switch
    \/ Again

PureSpec == PureInit /\ [][PureNext]_vars

\* EnglishTokenizer.tokenize on spans that nest deeply
DepthInit == \E txt \in DepthTexts : Idle(txt)

DepthNext ==
    \/ Tokenize
    \/ TokenizeLoop
    \/ TokenizeLast
    \/ TokenizeAux
    \/ AddToken
    \/ TokenizeReturn

DepthSpec == DepthInit /\ [][DepthNext]_vars

\* a tokenizer constructed on a directory whose file of concatenated words
\* has one line, and a call on a text with the word of that line
TableInit ==
    \E line \in TableLines : \E txt \in TableTexts(line) :
        /\ call = "none" /\ pc = "idle" /\ text = txt
        /\ arg = <<>> /\ tokens = <<>> /\ offsets = <<>>
        /\ begin = 0 /\ last = 0 /\ end = 0 /\ stack = <<>>
        /\ tables = [ResourceTables EXCEPT !.MAP_CONCAT_WORD = read_concat_word_file(line)]
        /\ other = NoCall(<<>>)

TableNext ==
    \/ Tokenize
    \/ TokenizeLoop
    \/ TokenizeLast
    \/ TokenizeAux
    \/ AddToken
    \/ TokenizeReturn

TableSpec == TableInit /\ [][TableNext]_vars

OffsetsNext ==
    \/ OffsetsCall
    \/ Offset
    \/ OffsetsReturn

OffsetsSpec == OffsetsInit /\ [][OffsetsNext]_vars

----------------------------------------------------------------------------
(* Properties *)

Returned(method) == call = method /\ pc = "done"

\* token occurs in txt at index j
OccursAt(txt, token, j) ==
    /\ 0 <= j
    /\ j + Len(token) <= Len(txt)
    /\ SubSeq(txt, j + 1, j + Len(token)) = token

IsSpaceAt(txt, p) == txt[p + 1] \in Whitespace

\* a returned range lies over a whitespace character: the token was merged
\* from pieces of different whitespace-delimited spans
MergedOverSpace(i) ==
    \E p \in offsets[i][1]..offsets[i][2] - 1 : IsSpaceAt(text, p)

\* C1: in the result of EnglishTokenizer.tokenize every token is the text
\* between its offsets: text[offsets[i].begin:offsets[i].end] == tokens[i]
C1_RoundTrip ==
    Returned("EnglishTokenizer") =>
        \A i \in 1..Len(tokens) :
            /\ 0 <= offsets[i][1] /\ offsets[i][1] <= offsets[i][2]
            /\ offsets[i][2] <= Len(text)
            /\ SubSeq(text, offsets[i][1] + 1, offsets[i][2]) = tokens[i]

\* C2: the ranges returned by EnglishTokenizer.tokenize cover every
\* non-whitespace position exactly once and no whitespace position
C2_Coverage ==
    Returned("EnglishTokenizer") =>
        \A p \in 0..Len(text) - 1 :
            LET covering == {i \in 1..Len(offsets) : offsets[i][1] <= p /\ p < offsets[i][2]}
            IN  IF IsSpaceAt(text, p) THEN covering = {} ELSE Cardinality(covering) = 1

\* C3: during and after EnglishTokenizer.tokenize the offsets are ordered
\* without overlap: begin < end, and each end <= the next begin
C3_Ordered ==
    call = "EnglishTokenizer" =>
        /\ \A i \in 1..Len(offsets) : offsets[i][1] < offsets[i][2]
        /\ \A i \in 1..Len(offsets) - 1 : offsets[i][2] <= offsets[i + 1][1]

\* a merge of three (m/m) followed by a further token
C3_Witness ==
    /\ Returned("EnglishTokenizer")
    /\ Len(offsets) >= 2
    /\ \E i \in 1..Len(tokens) : Len(tokens[i]) >= 3 /\ "/" \in {tokens[i][k] : k \in 1..Len(tokens[i])}

\* C4: tokens and offsets have the same length in every state, of both tokenizers
C4_SameLength == Len(tokens) = Len(offsets)

\* the no-dot-digit pop, then an append: "no. 1" gives "no.", "1"
C4_Witness ==
    /\ Returned("EnglishTokenizer")
    /\ tokens = << <<"n","o",".">>, <<"1">> >>

\* C5: for the empty text and for a text of whitespace only, both tokenizers
\* return ([], []) and raise nothing
C5_EmptyInput ==
    (call \in {"EnglishTokenizer", "SpaceTokenizer"} /\ \A i \in 1..Len(text) : text[i] \in Whitespace)
        => (pc = "done" /\ tokens = <<>> /\ offsets = <<>> /\ stack = <<>>)

C5_Witness ==
    /\ Returned("SpaceTokenizer")
    /\ Len(text) >= 2
    /\ \A i \in 1..Len(text) : text[i] \in Whitespace

\* the positions where a maximal run of non-whitespace characters starts
RunStarts(txt) ==
    {b \in 0..Len(txt) - 1 : ~IsSpaceAt(txt, b) /\ (b = 0 \/ IsSpaceAt(txt, b - 1))}

\* [b, e) is a maximal run of non-whitespace characters of txt
IsMaximalRun(txt, b, e) ==
    /\ b \in RunStarts(txt)
    /\ b < e /\ e <= Len(txt)
    /\ \A p \in b..e - 1 : ~IsSpaceAt(txt, p)
    /\ (e = Len(txt) \/ IsSpaceAt(txt, e))

\* C6: SpaceTokenizer.tokenize returns exactly the maximal runs of
\* non-whitespace characters, in order, each with its own position
C6_SpaceRuns ==
    call = "SpaceTokenizer" =>
        /\ pc = "done"
        /\ Len(tokens) = Cardinality(RunStarts(text))
        /\ Len(offsets) = Len(tokens)
        /\ \A i \in 1..Len(offsets) :
              /\ IsMaximalRun(text, offsets[i][1], offsets[i][2])
              /\ tokens[i] = SubSeq(text, offsets[i][1] + 1, offsets[i][2])
        /\ \A i \in 1..Len(offsets) - 1 : offsets[i][1] < offsets[i + 1][1]

\* the same token twice: the second is found at its own run
C6_Witness ==
    /\ Returned("SpaceTokenizer")
    /\ Len(tokens) >= 2
    /\ tokens[1] = tokens[2]

\* C7: Tokenizer.offsets gives each token (b, b + len(token)) with b the
\* smallest index >= the end of the previous range (0 at first) where the
\* token occurs in the text; the docstring's example
C7_FirstOccurrence ==
    call = "offsets" =>
        /\ \A k \in 1..Len(offsets) :
              LET from == IF k = 1 THEN 0 ELSE offsets[k - 1][2]
                  b == offsets[k][1]
              IN  /\ from <= b
                  /\ OccursAt(text, arg[k], b)
                  /\ \A j \in from..b - 1 : ~OccursAt(text, arg[k], j)
                  /\ offsets[k][2] = b + Len(arg[k])
        /\ (pc = "done" /\ text = DocText /\ arg = DocTokens)
              => offsets = << <<0, 5>>, <<5, 6>>, <<7, 12>>, <<12, 13>> >>

C7_Witness == Returned("offsets") /\ text = DocText /\ arg = DocTokens

\* the token offset() is about to look for occurs at or after end
NextTokenOccurs == \E j \in end..Len(text) : OccursAt(text, arg[Len(offsets) + 1], j)

\* C8: Tokenizer.offsets raises, and returns nothing, as soon as a token does
\* not occur at or after the end of the previous match, and otherwise goes on
\* with an aligned range
C8_FailsLoudly ==
    [][ /\ (pc = "run" /\ Len(offsets) < Len(arg)) =>
              IF NextTokenOccurs
              THEN /\ pc' = "run"
                   /\ Len(offsets') = Len(offsets) + 1
                   /\ OccursAt(text, arg[Len(offsets')], offsets'[Len(offsets')][1])
              ELSE pc' = "raised" /\ offsets' = offsets
        /\ pc = "raised" => pc' = "raised"
      ]_vars

\* raised for a token that occurs only before end (tokens out of order)
C8_Witness ==
    /\ call = "offsets" /\ pc = "raised"
    /\ Len(offsets) >= 1
    /\ \E j \in 0..end - 1 : OccursAt(text, arg[Len(offsets) + 1], j)

\* C9: SpaceTokenizer.tokenize(' '.join(tokens)) gives back the tokens that
\* EnglishTokenizer.tokenize returned
C9_Rejoin ==
    Returned("EnglishTokenizer") =>
        /\ SpaceTokenizer_tokenize(join(tokens)).ok
        /\ SpaceTokenizer_tokenize(join(tokens)).tokens = tokens

\* a result with a token merged over whitespace
C9_Witness ==
    /\ Returned("EnglishTokenizer")
    /\ Len(tokens) >= 2
    /\ \E i \in 1..Len(tokens) : MergedOverSpace(i)

RECURSIVE SumWeights(_)
\* 1 for a pending add_token, 3n + 1 for a pending tokenize_aux on n characters
SumWeights(st) ==
    IF st = <<>> THEN 0
    ELSE LET f == Head(st)
             n == IF f.end > f.begin THEN f.end - f.begin ELSE 0
         IN  (IF f.op = "add_token" THEN 1 ELSE 3 * n + 1) + SumWeights(Tail(st))

\* a bound on the steps EnglishTokenizer.tokenize still takes
Measure ==
    IF pc = "idle" THEN 4 * Len(text) + 4
    ELSE IF pc = "loop" THEN 4 * (last - begin) + 3 + SumWeights(stack)
    ELSE IF pc = "final" THEN 1 + SumWeights(stack)
    ELSE 0

\* every pending tokenize_aux made by a tokenize_aux has a non-negative range
\* inside, and strictly shorter than, the range of its caller
CallsShrink ==
    \A k \in 1..Len(stack) :
        LET f == stack[k]
        IN  (f.op = "tokenize_aux" /\ f.from # <<>>) =>
               /\ f.from[1] <= f.begin /\ f.begin <= f.end /\ f.end <= f.from[2]
               /\ f.end - f.begin < f.from[2] - f.from[1]

\* C10: EnglishTokenizer.tokenize terminates: every recursive tokenize_aux
\* gets a strictly shorter range than its caller, and every step lowers the
\* bound on the steps left
C10_Terminates ==
    [][ call' = "EnglishTokenizer" =>
           /\ CallsShrink'
           /\ Measure' >= 0
           /\ Measure' < Measure
      ]_vars

\* both remainders of a split are pending, non-empty, under a caller
C10_Witness ==
    /\ call = "EnglishTokenizer"
    /\ \E k \in 1..Len(stack) :
          /\ stack[k].op = "tokenize_aux"
          /\ stack[k].from # <<>>
          /\ stack[k].end - stack[k].begin >= 2

\* the calls contain a call of add_token: tokenize_aux returns True after it
Handles(calls) == \E k \in 1..Len(calls) : calls[k].op = "add_token"

\* C11: EnglishTokenizer.tokenize never raises on any text: no rule of
\* tokenize_symbol or concat_token indexes outside its string or the token
\* list, every tokenize_aux on a non-empty span is handled by a branch that
\* calls add_token, and every add_token appends to or merges into the lists
C11_NeverFails ==
    call = "EnglishTokenizer" =>
        /\ pc # "raised"
        /\ stack # <<>> =>
              LET f == Head(stack)
              IN  IF f.op = "add_token"
                  THEN /\ f.token # <<>>
                       /\ ~concat_token_IndexError(tokens, f.token)
                       /\ add_token(tokens, offsets, f.token, f.begin, f.end)
                             # [tokens |-> tokens, offsets |-> offsets]
                  ELSE f.begin < f.end =>
                         /\ f.end <= Len(text)
                         /\ ~tokenize_aux_IndexError(text, f.begin, f.end)
                         /\ Handles(tokenize_aux(text, f.begin, f.end))

\* the running call and the other call have returned, for the same text
BothReturned ==
    /\ Returned("EnglishTokenizer")
    /\ other.call = "EnglishTokenizer" /\ other.pc = "done"
    /\ other.text = text

\* C12: EnglishTokenizer.tokenize is a pure function of the text and the
\* tables: no step changes the tables, every call starts from empty lists,
\* and two calls on the same text return equal results whatever calls ran
\* between them or interleaved with them
C12_Pure ==
    [][ /\ tables' = tables
        /\ tables' = ResourceTables
        /\ (call = "none" /\ call' = "EnglishTokenizer" /\ other' = other)
              => (stack' = <<>> /\ tokens' = <<>> /\ offsets' = <<>>)
        /\ BothReturned' => (tokens' = other'.tokens /\ offsets' = other'.offsets)
      ]_vars

\* two calls on "." have returned; one of them after a call on "m" whose
\* result ends with a token that "." would merge into
C12_Witness ==
    /\ BothReturned
    /\ text = <<".">>
    /\ tokens = << <<".">> >>

\* the patterns in the order tokenize_regex tries them
PatternOrder == <<"html_entity", "email", "hyperlink", "emoticon", "list_item", "apostrophe">>

\* the match of the pattern in token (group 1 for emoticon and apostrophe)
PatternMatch(name, token) ==
    CASE name = "html_entity" -> RE_HTML_ENTITY(token)
      [] name = "email" -> RE_EMAIL(token)
      [] name = "hyperlink" -> RE_NETWORK_PROTOCOL(token)
      [] name = "emoticon" -> RE_EMOTICON(token)
      [] name = "list_item" -> RE_LIST_ITEM(token)
      [] name = "apostrophe" -> RE_APOSTROPHE(token)
      [] OTHER -> NoMatch

\* the first pattern of the order that matches somewhere in token, or "none"
FirstPattern(token) ==
    LET S == {k \in 1..Len(PatternOrder) : PatternMatch(PatternOrder[k], token).found}
    IN  IF S = {} THEN "none" ELSE PatternOrder[Min(S)]

\* a step that runs the tokenize_aux at the head of the stack
AuxStep ==
    /\ call = "EnglishTokenizer" /\ pc \in {"loop", "final"}
    /\ stack # <<>> /\ Head(stack).op = "tokenize_aux"
    /\ pc' = pc /\ other' = other

\* the span of the tokenize_aux at the head of the stack
HeadSpan == SubSeq(text, Head(stack).begin + 1, Head(stack).end)

\* the head of the stack is a tokenize_aux on a span that is not trivial
HeadNotTrivial ==
    /\ Head(stack).begin < Head(stack).end
    /\ Len(HeadSpan) > 1
    /\ \E k \in 1..Len(HeadSpan) : HeadSpan[k] \notin Alnum

\* the first three calls of st resolve the span [b, e) of txt as: what is
\* before idx, the candidate txt[idx:lst] with offsets (idx, lst), what is
\* after lst
CarvedAt(st, txt, b, e, idx, lst) ==
    /\ Len(st) >= 3
    /\ b <= idx /\ idx < lst /\ lst <= e
    /\ st[1].op = "tokenize_aux" /\ st[1].begin = b /\ st[1].end = idx
    /\ st[2].op = "add_token" /\ st[2].begin = idx /\ st[2].end = lst
    /\ st[2].token = SubSeq(txt, idx + 1, lst)
    /\ st[3].op = "tokenize_aux" /\ st[3].begin = lst /\ st[3].end = e

DontStop == <<"d","o","n","'","t"," ","s","t","o","p">>
EmailSentIt == <<"j","i","n","h","o","@","e","l","i","t",".","c","l","o","u","d"," ","s","e","n","t"," ","i","t">>
FirstItem == <<"(","1","a",")"," ","f","i","r","s","t"," ","i","t","e","m">>

\* C13: when a pattern other than the hyperlink pattern is the one used on a
\* span, tokenize_aux resolves what is before the match, then adds the match
\* as one candidate with offsets (idx, lst), then resolves what is after it;
\* for emoticon and apostrophe the match is group 1, which ends before the
\* boundary character.  "don't stop" gives do, n't, stop; the email address
\* and the list marker (1a) come out as first tokens
C13_PatternCarves ==
    [][ /\ (AuxStep /\ HeadNotTrivial
            /\ FirstPattern(HeadSpan) \notin {"none", "hyperlink"}) =>
              LET f == Head(stack)
                  p == FirstPattern(HeadSpan)
                  m == PatternMatch(p, HeadSpan)
              IN  /\ CarvedAt(stack', text, f.begin, f.end, f.begin + m.start, f.begin + m.end)
                  /\ SubSeq(stack', 4, Len(stack')) = Tail(stack)
                  /\ tokens' = tokens /\ offsets' = offsets
                  /\ p \in {"emoticon", "apostrophe"} =>
                        (m.end = Len(HeadSpan) \/ HeadSpan[m.end + 1] \notin WordChars)
                  /\ p = "apostrophe" =>
                        \/ HeadSpan[m.start + 1] = "'"
                        \/ HeadSpan[m.start + 1] \in {"n", "N"} /\ HeadSpan[m.start + 2] = "'"
        /\ (Returned("EnglishTokenizer")' /\ text' = DontStop) =>
              /\ tokens' = << <<"d","o">>, <<"n","'","t">>, <<"s","t","o","p">> >>
              /\ offsets' = << <<0, 2>>, <<2, 5>>, <<6, 10>> >>
        /\ (Returned("EnglishTokenizer")' /\ text' = EmailSentIt) =>
              tokens'[1] = SubSeq(EmailSentIt, 1, 16) /\ offsets'[1] = <<0, 16>>
        /\ (Returned("EnglishTokenizer")' /\ text' = FirstItem) =>
              tokens'[1] = <<"(","1","a",")">> /\ offsets'[1] = <<0, 4>>
      ]_vars

\* the apostrophe pattern has carved don't: do is resolved, n't is the
\* pending candidate, the remainder after it is still to come
C13_Witness ==
    /\ call = "EnglishTokenizer" /\ text = DontStop
    /\ Len(stack) >= 2
    /\ stack[1].op = "add_token" /\ stack[1].token = <<"n","'","t">>
    /\ tokens = << <<"d","o">> >>

\* a step that runs the add_token at the head of the stack
AddStep ==
    /\ call = "EnglishTokenizer" /\ pc \in {"loop", "final"}
    /\ stack # <<>> /\ Head(stack).op = "add_token"
    /\ pc' = pc /\ other' = other

\* single letters or digits separated by '.' or '-': a, U.S, 1-2-3
DottedShape(s) ==
    /\ Len(s) % 2 = 1
    /\ \A k \in 1..Len(s) :
          IF k % 2 = 1 THEN s[k] \in Letters \cup Digits ELSE s[k] \in {".", "-"}

USGovernment == <<"U",".","S","."," ","g","o","v","e","r","n","m","e","n","t">>

\* C14: when add_token gets the candidate '.' and the last token, lower-cased,
\* has the dotted-abbreviation shape or is in the abbreviation-period set,
\* nothing is appended: the last token becomes last + '.' and its offsets end
\* at the end of the candidate.  "U.S. government" gives U.S., government
C14_AbbreviationPeriod ==
    [][ /\ (AddStep /\ Head(stack).token = <<".">> /\ tokens # <<>>
            /\ \/ DottedShape(lower(tokens[Len(tokens)]))
               \/ lower(tokens[Len(tokens)]) \in english_abbreviation_period) =>
              LET n == Len(tokens)
              IN  /\ Len(tokens') = n /\ Len(offsets') = n
                  /\ SubSeq(tokens', 1, n - 1) = SubSeq(tokens, 1, n - 1)
                  /\ SubSeq(offsets', 1, n - 1) = SubSeq(offsets, 1, n - 1)
                  /\ tokens'[n] = Append(tokens[n], ".")
                  /\ offsets'[n] = <<offsets[n][1], Head(stack).end>>
        /\ (Returned("EnglishTokenizer")' /\ text' = USGovernment) =>
              tokens' = << <<"U",".","S",".">>, <<"g","o","v","e","r","n","m","e","n","t">> >>
      ]_vars

\* the period has been merged into U.S
C14_Witness ==
    /\ call = "EnglishTokenizer" /\ text = USGovernment
    /\ pc = "loop" /\ stack # <<>>
    /\ tokens = << <<"U",".","S",".">> >>
    /\ offsets = << <<0, 4>> >>

\* the positions u of s with a digit at u - 1 and a unit of measure, in any
\* case, from u to the end
UnitStarts(s) ==
    {u \in 1..Len(s) - 1 :
        s[u] \in Digits /\ lower(SubSeq(s, u + 1, Len(s))) \in UnitSet}

\* add_token merges the candidate of the head of the stack into the tokens
HeadMerges ==
    concat_token(tokens, offsets, Head(stack).token, Head(stack).begin, Head(stack).end).merged

\* the lists when concat_token has returned without a merge
AfterConcat ==
    concat_token(tokens, offsets, Head(stack).token, Head(stack).begin, Head(stack).end).lists

TenKgOfRice == <<"1","0","k","g"," ","o","f"," ","r","i","c","e">>

\* C15: when no merge rule applies and the candidate ends with a digit and a
\* unit of measure after it (in any case), add_token appends exactly two
\* tokens: candidate[:u] with offsets (begin, begin + u) and candidate[u:]
\* with offsets (begin + u, end), u the start of the unit; both are
\* non-empty.  "10kg of rice" gives 10, kg, of, rice
C15_UnitSplit ==
    [][ /\ (AddStep /\ ~HeadMerges /\ UnitStarts(Head(stack).token) # {}) =>
              LET f == Head(stack)
                  u == CHOOSE x \in UnitStarts(f.token) : TRUE
                  n == Len(AfterConcat.tokens)
              IN  /\ Cardinality(UnitStarts(f.token)) = 1
                  /\ 0 < u /\ u < Len(f.token)
                  /\ Len(tokens') = n + 2 /\ Len(offsets') = n + 2
                  /\ SubSeq(tokens', 1, n) = AfterConcat.tokens
                  /\ SubSeq(offsets', 1, n) = AfterConcat.offsets
                  /\ tokens'[n + 1] = SubSeq(f.token, 1, u)
                  /\ offsets'[n + 1] = <<f.begin, f.begin + u>>
                  /\ tokens'[n + 2] = SubSeq(f.token, u + 1, Len(f.token))
                  /\ offsets'[n + 2] = <<f.begin + u, f.end>>
        /\ (Returned("EnglishTokenizer")' /\ text' = TenKgOfRice) =>
              /\ tokens' = << <<"1","0">>, <<"k","g">>, <<"o","f">>, <<"r","i","c","e">> >>
              /\ offsets' = << <<0, 2>>, <<2, 4>>, <<5, 7>>, <<8, 12>> >>
      ]_vars

\* 5KG has been split into 5 and KG: the unit in upper case
C15_Witness ==
    /\ Returned("EnglishTokenizer")
    /\ tokens = << <<"5">>, <<"K","G">> >>
    /\ offsets = << <<0, 1>>, <<1, 3>> >>

\* what a call is: its function and arguments
Plain(calls) ==
    [k \in 1..Len(calls) |-> <<calls[k].op, calls[k].token, calls[k].begin, calls[k].end>>]

\* the calls that the step has put in place of the head of the stack
NewCalls == SubSeq(stack', 1, Len(stack') - Len(stack) + 1)

\* the step passes the whole span of the head of the stack to add_token
WholeSpanAdded ==
    /\ Len(stack') = Len(stack)
    /\ Plain(NewCalls) = << <<"add_token", HeadSpan, Head(stack).begin, Head(stack).end>> >>

\* C16: tokenize_aux takes the first branch that applies, in the order
\* trivial, patterns, symbols, fallback: a span of one character or of
\* letters and digits only goes whole to add_token; the symbol rules are
\* used only when no pattern matches; the span goes whole to add_token also
\* when neither matches.  On an empty range nothing is called and tokens and
\* offsets stay as they are
C16_ResolutionOrder ==
    [][ AuxStep =>
          LET f == Head(stack)
          IN  /\ tokens' = tokens /\ offsets' = offsets
              /\ SubSeq(stack', Len(stack') - Len(stack) + 2, Len(stack')) = Tail(stack)
              /\ IF f.begin >= f.end THEN stack' = Tail(stack)
                 ELSE IF ~HeadNotTrivial THEN WholeSpanAdded
                 ELSE IF FirstPattern(HeadSpan) # "none"
                 THEN Plain(NewCalls) = Plain(tokenize_regex(text, f.begin, f.end, HeadSpan))
                 ELSE IF tokenize_symbol(text, f.begin, f.end, HeadSpan) # <<>>
                 THEN Plain(NewCalls) = Plain(tokenize_symbol(text, f.begin, f.end, HeadSpan))
                 ELSE WholeSpanAdded
      ]_vars

\* (1a) is the pending candidate: the list-item pattern was used on a span
\* that the symbol rules would split at its bracket
C16_Witness ==
    /\ call = "EnglishTokenizer" /\ text = FirstItem
    /\ stack # <<>>
    /\ Head(stack).op = "add_token" /\ Head(stack).token = <<"(","1","a",")">>
    /\ tokenize_symbol(text, 0, 4, SubSeq(text, 1, 4)) # <<>>

\* the calls of add_token among the calls the step has made
NewCandidates == {k \in 1..Len(NewCalls) : NewCalls[k].op = "add_token"}

ApostropheEntity == <<"a","'","s","&","a",";">>

\* C17: the patterns are tried in the order HTML entity, email, hyperlink,
\* emoticon, list item, apostrophe, and the first of them that matches
\* anywhere in the span carves it: the one candidate of the step is the match
\* of that pattern (for the hyperlink pattern, from the scheme to the end of
\* the span), also when a later pattern matches further left
C17_PatternOrder ==
    [][ (AuxStep /\ HeadNotTrivial /\ FirstPattern(HeadSpan) # "none") =>
              LET f == Head(stack)
                  p == FirstPattern(HeadSpan)
                  m == PatternMatch(p, HeadSpan)
              IN  /\ Cardinality(NewCandidates) = 1
                  /\ \A k \in NewCandidates :
                        /\ NewCalls[k].begin = f.begin + m.start
                        /\ NewCalls[k].end = IF p = "hyperlink" THEN f.end ELSE f.begin + m.end
      ]_vars

\* in a's&a; the apostrophe pattern matches at 1 and the HTML entity at 3:
\* the entity has carved the span, with a's as its left remainder
C17_Witness ==
    /\ call = "EnglishTokenizer" /\ text = ApostropheEntity
    /\ RE_APOSTROPHE(text).found /\ RE_HTML_ENTITY(text).found
    /\ RE_APOSTROPHE(text).start < RE_HTML_ENTITY(text).start
    /\ Len(stack) = 3
    /\ Plain(stack) = << <<"tokenize_aux", <<>>, 0, 3>>,
                         <<"add_token", <<"&","a",";">>, 3, 6>>,
                         <<"tokenize_aux", <<>>, 6, 6>> >>

\* C18: a span between whitespace in which a scheme and :// occur, and no
\* HTML entity or email address, gives exactly one token from the start of
\* the scheme to the end of the span: the whole span when the scheme is at
\* its start, and otherwise what follows the recursively resolved text
\* before the scheme; it is not split further
C18_HyperlinkWhole ==
    Returned("EnglishTokenizer") =>
        \A b \in RunStarts(text) :
            LET e == RunEndNot(text, b, Whitespace)
                span == SubSeq(text, b + 1, e)
                m == RE_NETWORK_PROTOCOL(span)
            IN  FirstPattern(span) = "hyperlink" =>
                    \E i \in 1..Len(tokens) :
                        /\ offsets[i] = <<b + m.start, e>>
                        /\ tokens[i] = SubSeq(text, b + m.start + 1, e)

\* the character of s at i is a digit; outside s there is no digit
DigitAt(s, i) == 0 <= i /\ i < Len(s) /\ s[i + 1] \in Digits

\* the character of s at i is one the symbol rules skip: . or + before a
\* digit, - at 0 before a digit, a comma after a digit and before exactly
\* three, a colon between digits, a single quote before exactly two digits
SkipException(s, i) ==
    LET c == s[i + 1]
    IN  \/ c \in {".", "+"} /\ DigitAt(s, i + 1)
        \/ c = "-" /\ i = 0 /\ DigitAt(s, i + 1)
        \/ /\ c = "," /\ DigitAt(s, i - 1)
           /\ DigitAt(s, i + 1) /\ DigitAt(s, i + 2) /\ DigitAt(s, i + 3)
           /\ ~DigitAt(s, i + 4)
        \/ c = ":" /\ DigitAt(s, i - 1) /\ DigitAt(s, i + 1)
        \/ c = "'" /\ DigitAt(s, i + 1) /\ DigitAt(s, i + 2) /\ ~DigitAt(s, i + 3)

\* s has only digits and skipped characters
NumberLike(s) == \A i \in 0..Len(s) - 1 : DigitAt(s, i) \/ SkipException(s, i)

\* the symbol rules do not split at a skipped character
NoSplitAtSkipped ==
    (AuxStep /\ HeadNotTrivial /\ FirstPattern(HeadSpan) = "none" /\ Len(NewCalls) = 3) =>
        ~SkipException(HeadSpan, NewCalls[2].begin - Head(stack).begin)

\* every span between whitespace that has only digits and skipped characters
\* lies inside one returned range
NumbersKeptWhole ==
    Returned("EnglishTokenizer") =>
        \A b \in RunStarts(text) :
            LET e == RunEndNot(text, b, Whitespace)
            IN  NumberLike(SubSeq(text, b + 1, e)) =>
                    \E i \in 1..Len(offsets) : offsets[i][1] <= b /\ e <= offsets[i][2]

\* C19: the symbol rules never split at a skipped character (out-of-range
\* neighbours count as non-digits, the skip check comes before the class
\* checks), and so a span of digits and skipped characters only, such as
\* 1,000 or 1:2 or -1 or .5 or '97, is emitted as one token
C19_SkipExceptions == [][NoSplitAtSkipped /\ NumbersKeptWhole']_vars

\* the symbol rules alone: no split at a skipped character
C19_SymbolRulesSkip == [][NoSplitAtSkipped]_vars

HelloWorld == <<"H","e","l","l","o",","," ","w","o","r","l","d","!">>

\* the positions of token that are not skipped and qualify for a class,
\* the classes taken in the order separator, edge symbol, currency-like
Qualifying(token) ==
    {i \in 0..Len(token) - 1 :
        LET c == token[i + 1]
            j == index_last_sequence(token, i, c)
        IN  /\ ~skip(token, i, c)
            /\ \/ separator_0(c)
               \/ edge_symbol_0(c) /\ edge_symbol_1(token, i, j)
               \/ currency_like_0(c) /\ currency_like_1(token, i, j)}

\* token[i:j] is the longest run from i of the character at i, or of the
\* marks . ? ! when the character at i is one of them
MaximalRun(token, i, j) ==
    LET R == IF token[i + 1] \in {".", "?", "!"} THEN {".", "?", "!"} ELSE {token[i + 1]}
    IN  /\ i < j /\ j <= Len(token)
        /\ \A k \in i + 1..j : token[k] \in R
        /\ j < Len(token) => token[j + 1] \notin R

\* C20: tokenize_symbol splits a span at the leftmost position that is not
\* skipped and qualifies for a class; a separator that is not skipped always
\* qualifies; the middle piece is the longest run of that character (of any
\* of . ? ! for a final mark); what is before the run, the run and what is
\* after it are resolved in that order and partition the span.  Hello, world!
\* gives Hello , world ! with offsets (0,5) (5,6) (7,12) (12,13)
C20_SymbolSplit ==
    [][ /\ (AuxStep /\ HeadNotTrivial /\ FirstPattern(HeadSpan) = "none") =>
              LET f == Head(stack)
                  Q == Qualifying(HeadSpan)
              IN  /\ \A i \in 0..Len(HeadSpan) - 1 :
                        (separator_0(HeadSpan[i + 1]) /\ ~skip(HeadSpan, i, HeadSpan[i + 1]))
                            => i \in Q
                  /\ IF Q = {} THEN WholeSpanAdded
                     ELSE /\ Len(NewCalls) = 3
                          /\ \E j \in 1..Len(HeadSpan) :
                                /\ MaximalRun(HeadSpan, Min(Q), j)
                                /\ CarvedAt(NewCalls, text, f.begin, f.end,
                                            f.begin + Min(Q), f.begin + j)
        /\ (Returned("EnglishTokenizer")' /\ text' = HelloWorld) =>
              /\ tokens' = << <<"H","e","l","l","o">>, <<",">>, <<"w","o","r","l","d">>, <<"!">> >>
              /\ offsets' = << <<0, 5>>, <<5, 6>>, <<7, 12>>, <<12, 13>> >>
      ]_vars

\* the run -- of m--m is the pending candidate, after m was added: the split
\* was made at the first hyphen and the middle piece has both
C20_Witness ==
    /\ call = "EnglishTokenizer" /\ text = <<"m","-","-","m">>
    /\ tokens = << <<"m">> >>
    /\ stack # <<>>
    /\ Head(stack).op = "add_token" /\ Head(stack).token = <<"-","-">>
    /\ Head(stack).begin = 1 /\ Head(stack).end = 3

\* a step of tokenize_aux that gets to the symbol rules
SymbolStep == AuxStep /\ HeadNotTrivial /\ FirstPattern(HeadSpan) = "none"

\* the step splits the span of the head of the stack, at position i of it
SplitsAt(i) == Len(NewCalls) = 3 /\ NewCalls[2].begin = Head(stack).begin + i

\* the end of the run of token that starts at i
RunEndOf(token, i) == CHOOSE j \in i + 1..Len(token) : MaximalRun(token, i, j)

\* the positions of token with a single quote or a final mark, not skipped
EdgePositions(token) ==
    {i \in 0..Len(token) - 1 :
        token[i + 1] \in {"'", ".", "?", "!"} /\ ~SkipException(token, i)}

\* the run at i is longer than one character, or starts token, or ends it,
\* or has a punctuation character right before or right after it
EdgeSplits(token, i) ==
    LET j == RunEndOf(token, i)
    IN  \/ j - i > 1
        \/ i = 0
        \/ j = Len(token)
        \/ token[i] \in Punctuation
        \/ token[j + 1] \in Punctuation

USDots == <<"U",".","S">>

\* C21: a run that starts with a single quote or a final mark and is not
\* skipped splits the span if and only if it is longer than one character,
\* or starts at position 0, or ends at the end of the span, or has a
\* punctuation character right before or right after it: with the condition
\* the span is split at or before the run, a split at the run has the
\* condition, and a lone mark between letters, as in U.S and hello.World,
\* leaves the span whole
C21_EdgeSymbol ==
    [][ /\ SymbolStep =>
              LET f == Head(stack)
                  E == EdgePositions(HeadSpan)
              IN  /\ \A i \in E :
                        EdgeSplits(HeadSpan, i) => \E k \in 0..i : SplitsAt(k)
                  /\ \A i \in E :
                        SplitsAt(i) =>
                            /\ EdgeSplits(HeadSpan, i)
                            /\ NewCalls[2].end = f.begin + RunEndOf(HeadSpan, i)
                  /\ (/\ \A i \in E : ~EdgeSplits(HeadSpan, i)
                      /\ \A i \in 0..Len(HeadSpan) - 1 :
                            HeadSpan[i + 1] \in Alnum \/ i \in E) => WholeSpanAdded
        /\ (AuxStep /\ HeadSpan \in {USDots, <<"h","e","l","l","o",".","W","o","r","l","d">>})
              => WholeSpanAdded
        /\ (Returned("EnglishTokenizer")' /\ text' = USDots) =>
              tokens' = <<USDots>> /\ offsets' = << <<0, 3>> >>
      ]_vars

\* in m.'m the period is the pending candidate: a lone period after a letter,
\* split off because a single quote comes right after it
C21_Witness ==
    /\ call = "EnglishTokenizer" /\ text = <<"m",".","'","m">>
    /\ stack # <<>>
    /\ Head(stack).op = "add_token" /\ Head(stack).token = <<".">>
    /\ Head(stack).begin = 1 /\ Head(stack).end = 2

\* the positions of token with a # or a currency symbol
CurrencyPositions(token) ==
    {i \in 0..Len(token) - 1 : token[i + 1] = "#" \/ is_currency(token[i + 1])}

\* the run at i is longer than one character, or ends token, or has a digit
\* right after it
CurrencySplits(token, i) ==
    LET j == RunEndOf(token, i)
    IN  \/ j - i > 1
        \/ j = Len(token)
        \/ token[j + 1] \in Digits

\* C22: a run that starts with # or a currency symbol splits the span if and
\* only if it is longer than one character, or ends at the end of the span,
\* or has a digit right after it: with the condition the span is split at or
\* before the run, a split at the run has the condition, and without it a
\* span of letters, digits and such characters stays whole, also when the
\* run starts at position 0, as in #m
C22_CurrencyLike ==
    [][ /\ SymbolStep =>
              LET f == Head(stack)
                  C == CurrencyPositions(HeadSpan)
              IN  /\ \A i \in C :
                        CurrencySplits(HeadSpan, i) => \E k \in 0..i : SplitsAt(k)
                  /\ \A i \in C :
                        SplitsAt(i) =>
                            /\ CurrencySplits(HeadSpan, i)
                            /\ NewCalls[2].end = f.begin + RunEndOf(HeadSpan, i)
                  /\ (/\ \A i \in C : ~CurrencySplits(HeadSpan, i)
                      /\ \A i \in 0..Len(HeadSpan) - 1 :
                            HeadSpan[i + 1] \in Alnum \/ i \in C) => WholeSpanAdded
        /\ (AuxStep /\ HeadSpan \in {<<"#","m">>, <<"$","m">>, <<"m","#","m">>})
              => WholeSpanAdded
      ]_vars

\* in m#8 the # is the pending candidate: a lone # after a letter, split off
\* because a digit comes right after it
C22_Witness ==
    /\ call = "EnglishTokenizer" /\ text = <<"m","#","8">>
    /\ stack # <<>>
    /\ Head(stack).op = "add_token" /\ Head(stack).token = <<"#">>
    /\ Head(stack).begin = 1 /\ Head(stack).end = 2

\* the step has changed a token that was there before it
MergeChanged ==
    \/ Len(tokens') < Len(tokens)
    \/ SubSeq(tokens', 1, Len(tokens)) # tokens

\* the step has joined the candidate to the last token
JoinedToLast ==
    LET n == Len(tokens)
    IN  /\ n >= 1 /\ Len(tokens') = n
        /\ tokens' = [tokens EXCEPT ![n] = tokens[n] \o Head(stack).token]

\* the step has joined the last two tokens and the candidate
JoinedToLastTwo ==
    LET n == Len(tokens)
    IN  /\ n >= 2 /\ Len(tokens') = n - 1
        /\ tokens' = Append(SubSeq(tokens, 1, n - 2),
                            tokens[n - 1] \o tokens[n] \o Head(stack).token)

\* the step has joined the last two tokens, and then done something with
\* the candidate
LastTwoJoined ==
    LET n == Len(tokens)
    IN  /\ n >= 2 /\ Len(tokens') >= n - 1
        /\ SubSeq(tokens', 1, n - 1)
             = Append(SubSeq(tokens, 1, n - 2), tokens[n - 1] \o tokens[n])

\* the last k >= 2 tokens are pieces of the candidate
SplitApplied ==
    \E k \in 2..Len(tokens') :
        LET m == Len(tokens')
            Cat[i \in 0..k] == IF i = 0 THEN <<>> ELSE Cat[i - 1] \o tokens'[m - k + i]
        IN  /\ Cat[k] = Head(stack).token
            /\ offsets'[m - k + 1][1] = Head(stack).begin

\* at most one merge rule changes the tokens
OneMergeRule ==
    (AddStep /\ MergeChanged) =>
        \/ JoinedToLast /\ ~JoinedToLastTwo /\ ~LastTwoJoined
        \/ JoinedToLastTwo /\ ~JoinedToLast /\ ~LastTwoJoined
        \/ LastTwoJoined /\ ~JoinedToLast /\ ~JoinedToLastTwo

\* C23: in every call of add_token at most one of the merge rules changes
\* the tokens that were there, and when one has changed them no split rule
\* is applied to the candidate
C23_MergeThenNoSplit ==
    [][ /\ OneMergeRule
        /\ (AddStep /\ MergeChanged) => ~SplitApplied
      ]_vars

\* the tokens from the n-th on are the candidate, whole or in pieces, and
\* their ranges go from its begin to its end
CandidateFrom(n) ==
    LET m == Len(tokens')
        Cat[i \in n - 1..m] == IF i = n - 1 THEN <<>> ELSE Cat[i - 1] \o tokens'[i]
    IN  /\ m >= n
        /\ Cat[m] = Head(stack).token
        /\ offsets'[n][1] = Head(stack).begin
        /\ offsets'[m][2] = Head(stack).end

\* C23 as amended: at most one merge rule changes the tokens that were
\* there; when it has joined the candidate to them no split rule is applied
\* to the candidate; when it is the no-dot-digit undo, which joins the last
\* two tokens without the candidate, the candidate comes after them, whole
\* or split by a split rule
C23_MergeThenNoSplitButUndo ==
    [][ /\ OneMergeRule
        /\ (AddStep /\ MergeChanged /\ ~LastTwoJoined) =>
              /\ ~SplitApplied
              /\ Len(tokens') <= Len(tokens)
        /\ (AddStep /\ LastTwoJoined) => CandidateFrom(Len(tokens))
      ]_vars

\* no. 5kg: no and the period have been joined and 5kg has been split
C23_Witness ==
    /\ Returned("EnglishTokenizer")
    /\ text = <<"n","o","."," ","5","k","g">>
    /\ tokens = << <<"n","o",".">>, <<"5">>, <<"k","g">> >>
    /\ offsets = << <<0, 3>>, <<4, 5>>, <<5, 7>> >>

\* every character of s is an upper-case letter
FullyUpper(s) == Len(s) > 0 /\ \A i \in 1..Len(s) : s[i] \in UpperLetters

IBMATT == <<"I","B","M","/","A","T","T">>

\* C24: when add_token is called with at least two tokens emitted, the last
\* of them a single &, | or /, and the token before it and the candidate
\* both of at most 2 characters or both fully upper-case, and the candidate
\* is not joined to the last token alone, then the last two tokens are
\* replaced by prev2 + prev1 + candidate with offsets (prev2.begin,
\* candidate.end), the candidate is not appended and the list is one entry
\* shorter than before
C24_AcronymMerge ==
    [][ (/\ AddStep
         /\ Len(tokens) >= 2
         /\ tokens[Len(tokens)] \in {<<"&">>, <<"|">>, <<"/">>}
         /\ LET prev2 == tokens[Len(tokens) - 1]
                cand == Head(stack).token
            IN  \/ Len(prev2) <= 2 /\ Len(cand) <= 2
                \/ FullyUpper(prev2) /\ FullyUpper(cand)
         /\ ~JoinedToLast) =>
            LET n == Len(tokens)
            IN  /\ Len(tokens') = n - 1 /\ Len(offsets') = n - 1
                /\ SubSeq(tokens', 1, n - 2) = SubSeq(tokens, 1, n - 2)
                /\ SubSeq(offsets', 1, n - 2) = SubSeq(offsets, 1, n - 2)
                /\ tokens'[n - 1] = tokens[n - 1] \o tokens[n] \o Head(stack).token
                /\ offsets'[n - 1] = <<offsets[n - 1][1], Head(stack).end>>
      ]_vars

\* IBM, / and ATT have been merged: both neighbours of / are longer than 2
\* characters and upper-case
C24_Witness ==
    /\ call = "EnglishTokenizer" /\ text = IBMATT
    /\ pc \in {"loop", "final"}
    /\ tokens = <<IBMATT>>
    /\ offsets = << <<0, 7>> >>

\* every character of s is a letter or a digit, and s is not empty
AllAlnum(s) == Len(s) > 0 /\ \A i \in 1..Len(s) : s[i] \in Alnum

\* every character of s is a digit, and s is not empty
AllDigits(s) == Len(s) > 0 /\ \A i \in 1..Len(s) : s[i] \in Digits

\* the last k characters of s are of class S, and they are all of s or have
\* a hyphen before them
EndsWithGroup(s, k, S) ==
    /\ Len(s) >= k
    /\ \A i \in Len(s) - k + 1..Len(s) : s[i] \in S
    /\ Len(s) = k \/ s[Len(s) - k] = "-"

\* the condition for the merge of prev2, a hyphen and the candidate
HyphenCondition(prev2, cand) ==
    \/ EndsWithGroup(prev2, 3, Digits) /\ AllDigits(cand)
    \/ EndsWithGroup(prev2, 1, Alnum) /\ Len(cand) = 1 /\ AllAlnum(cand)
    \/ lower(prev2) \in english_hyphen_prefix /\ AllAlnum(cand)
    \/ lower(cand) \in english_hyphen_suffix /\ AllAlnum(prev2)

Phone == <<"4","0","4","-","5","5","5","-","1","2","3","4">>
Push == <<"p","-","u","-","s","-","h">>

\* C25: when the last emitted token is a single hyphen, add_token merges
\* prev2, the hyphen and the candidate into one token in place of the two
\* entries if and only if (a) prev2 ends with three digits that are all of
\* it or follow a hyphen and the candidate is all digits, or (b) prev2 ends
\* with a letter or digit that is all of it or follows a hyphen and the
\* candidate is one letter or digit, or (c) prev2, lower-cased, is in the
\* hyphen-prefix set and the candidate is alphanumeric, or the candidate,
\* lower-cased, is in the hyphen-suffix set and prev2 is alphanumeric.
\* 404-555-1234 and p-u-s-h end as one token
C25_HyphenMerge ==
    [][ /\ (AddStep /\ Len(tokens) >= 2 /\ tokens[Len(tokens)] = <<"-">>) =>
              LET n == Len(tokens)
              IN  IF HyphenCondition(tokens[n - 1], Head(stack).token)
                  THEN /\ JoinedToLastTwo
                       /\ offsets' = Append(SubSeq(offsets, 1, n - 2),
                                            <<offsets[n - 1][1], Head(stack).end>>)
                  ELSE /\ ~JoinedToLastTwo
                       /\ ~MergeChanged
                       /\ SubSeq(offsets', 1, n) = offsets
        /\ (Returned("EnglishTokenizer")' /\ text' \in {Phone, Push}) =>
              tokens' = <<text'>> /\ offsets' = << <<0, Len(text')>> >>
      ]_vars

\* p-u and then -s have been merged: s was joined to p-u, which ends with a
\* letter after a hyphen
C25_Witness ==
    /\ call = "EnglishTokenizer" /\ text = Push
    /\ pc \in {"loop", "final"}
    /\ tokens = << <<"p","-","u","-","s">> >>
    /\ offsets = << <<0, 5>> >>

\* the last two emitted tokens are no, in any case, and a period, and the
\* candidate starts with a digit
NoDotDigit ==
    LET n == Len(tokens)
    IN  /\ n >= 2
        /\ lower(tokens[n - 1]) = <<"n","o">>
        /\ tokens[n] = <<".">>
        /\ Head(stack).token[1] \in Digits

\* C26: when the last two emitted tokens are no (compared lower-cased) and
\* a period and the candidate starts with a digit, add_token removes the
\* entry of the period and joins it to the entry of no, which becomes no +
\* period with offsets (no.begin, period.end), and changes no other entry;
\* in no other call of add_token are the last two entries joined without
\* the candidate
C26_NoDotDigit ==
    [][ AddStep =>
          LET n == Len(tokens)
          IN  IF NoDotDigit
              THEN /\ Len(tokens') >= n /\ Len(offsets') = Len(tokens')
                   /\ SubSeq(tokens', 1, n - 2) = SubSeq(tokens, 1, n - 2)
                   /\ SubSeq(offsets', 1, n - 2) = SubSeq(offsets, 1, n - 2)
                   /\ tokens'[n - 1] = Append(tokens[n - 1], ".")
                   /\ offsets'[n - 1] = <<offsets[n - 1][1], offsets[n][2]>>
                   /\ offsets'[n][1] = Head(stack).begin
              ELSE ~LastTwoJoined
      ]_vars

\* m no. 1: no and the period have been joined, the tokens before them
\* are as they were and 1 has been appended
C26_Witness ==
    /\ Returned("EnglishTokenizer")
    /\ text = <<"m"," ","n","o","."," ","1">>
    /\ tokens = << <<"m">>, <<"n","o",".">>, <<"1">> >>
    /\ offsets = << <<0, 1>>, <<2, 5>>, <<6, 7>> >>

\* the entry of the table for the candidate of the head of the stack
HeadEntry == tables.MAP_CONCAT_WORD[lower(Head(stack).token)]

\* the dictionary rule is the one that applies to the candidate of the head
\* of the stack
DictionaryStep ==
    /\ AddStep /\ ~HeadMerges
    /\ UnitStarts(Head(stack).token) = {}
    /\ lower(Head(stack).token) \in DOMAIN tables.MAP_CONCAT_WORD

\* the step has appended one token for each offset of the entry: the slices
\* of the candidate between the offsets, with their ranges
SlicesAppended ==
    LET f == Head(stack)
        t == HeadEntry
        n == Len(AfterConcat.tokens)
        From(k) == IF k = 1 THEN 0 ELSE t[k - 1]
    IN  /\ Len(tokens') = n + Len(t) /\ Len(offsets') = n + Len(t)
        /\ SubSeq(tokens', 1, n) = AfterConcat.tokens
        /\ SubSeq(offsets', 1, n) = AfterConcat.offsets
        /\ \A k \in 1..Len(t) :
              /\ tokens'[n + k] = SubSeq(f.token, From(k) + 1, t[k])
              /\ offsets'[n + k] = <<f.begin + From(k), f.begin + t[k]>>
        /\ offsets'[n + 1][1] = f.begin
        /\ offsets'[n + Len(t)][2] = f.end

\* every piece the step has appended is non-empty
PiecesNonEmpty ==
    \A k \in Len(AfterConcat.tokens) + 1..Len(tokens') :
        tokens'[k] # <<>> /\ offsets'[k][1] < offsets'[k][2]

Cannot == <<"c","a","n","n","o","t">>

\* C27: when no merge and no unit split applies and the candidate,
\* lower-cased, is a key of the table of concatenated words, add_token
\* appends one token for each offset of the entry, the consecutive slices of
\* the candidate in its own case with offsets begin + previous offset to
\* begin + offset; for an entry built by read_concat_word_dict the pieces
\* are non-empty, contiguous and cover [begin, end) exactly.  cannot gives
\* can, not
C27_DictionarySplit ==
    [][ /\ DictionaryStep => SlicesAppended /\ PiecesNonEmpty
        /\ (Returned("EnglishTokenizer")' /\ text' = Cannot
            /\ tables'.MAP_CONCAT_WORD = read_concat_word_dict) =>
              /\ tokens' = << <<"c","a","n">>, <<"n","o","t">> >>
              /\ offsets' = << <<0, 3>>, <<3, 6>> >>
      ]_vars

\* the slices and their ranges alone
C27_SlicesAppended == [][DictionaryStep => SlicesAppended]_vars

\* s is three or more letters, one or more of . ? !, three or more letters
WholeShape(s) ==
    \E i \in 3..Len(s) : \E j \in i + 1..Len(s) - 3 :
        /\ \A k \in 1..i : s[k] \in Letters
        /\ \A k \in i + 1..j : s[k] \in {".", "?", "!"}
        /\ \A k \in j + 1..Len(s) : s[k] \in Letters

\* s has that shape at its end
ShapeAtEnd(s) == \E a \in 0..Len(s) : WholeShape(SubSeq(s, a + 1, Len(s)))

\* the step has appended three tokens after the first n: letters, marks and
\* letters of the candidate, with ranges that adjoin and end at its end
ThreeGroupsAppended(n) ==
    LET f == Head(stack)
        Piece(k) == SubSeq(f.token, offsets'[k][1] - f.begin + 1, offsets'[k][2] - f.begin)
    IN  /\ Len(tokens') = n + 3 /\ Len(offsets') = n + 3
        /\ SubSeq(tokens', 1, n) = AfterConcat.tokens
        /\ SubSeq(offsets', 1, n) = AfterConcat.offsets
        /\ \A k \in n + 1..n + 3 :
              /\ f.begin <= offsets'[k][1] /\ offsets'[k][1] < offsets'[k][2]
              /\ tokens'[k] = Piece(k)
        /\ offsets'[n + 1][2] = offsets'[n + 2][1]
        /\ offsets'[n + 2][2] = offsets'[n + 3][1]
        /\ offsets'[n + 3][2] = f.end
        /\ Len(tokens'[n + 1]) >= 3 /\ \A i \in 1..Len(tokens'[n + 1]) : tokens'[n + 1][i] \in Letters
        /\ \A i \in 1..Len(tokens'[n + 2]) : tokens'[n + 2][i] \in {".", "?", "!"}
        /\ Len(tokens'[n + 3]) >= 3 /\ \A i \in 1..Len(tokens'[n + 3]) : tokens'[n + 3][i] \in Letters

\* the step has appended the two pieces of the unit rule after the first n
UnitPiecesAppended(n) ==
    LET f == Head(stack)
        u == CHOOSE x \in UnitStarts(f.token) : TRUE
    IN  /\ Len(tokens') = n + 2
        /\ tokens'[n + 1] = SubSeq(f.token, 1, u)
        /\ tokens'[n + 2] = SubSeq(f.token, u + 1, Len(f.token))
        /\ offsets'[n + 1] = <<f.begin, f.begin + u>>
        /\ offsets'[n + 2] = <<f.begin + u, f.end>>

\* the step has appended the candidate whole after the first n
WholeAppended(n) ==
    /\ Len(tokens') = n + 1
    /\ tokens'[n + 1] = Head(stack).token
    /\ offsets'[n + 1] = <<Head(stack).begin, Head(stack).end>>

\* a step of add_token without a merge does what the first split rule that
\* matches says, in the order unit, dictionary, final marks, and appends
\* the candidate whole when none matches; shape says whether the rule of
\* the final marks matches
FirstSplitRule(shape) ==
    (AddStep /\ ~HeadMerges) =>
        LET n == Len(AfterConcat.tokens)
        IN  IF UnitStarts(Head(stack).token) # {} THEN UnitPiecesAppended(n)
            ELSE IF lower(Head(stack).token) \in DOMAIN tables.MAP_CONCAT_WORD
            THEN SlicesAppended
            ELSE IF shape THEN ThreeGroupsAppended(n)
            ELSE WholeAppended(n)

\* C28: when no merge, unit or dictionary split applies and the candidate
\* has, at its end, the shape three or more letters, one or more of . ? !,
\* three or more letters, add_token appends the three groups as three tokens
\* with adjoining ranges (hello.World gives hello, ., World); of the three
\* split rules at most one fires, the first that matches in the order unit,
\* dictionary, final marks
C28_FinalMarkSplit == [][FirstSplitRule(ShapeAtEnd(Head(stack).token))]_vars

\* C28 as amended: the rule of the final marks matches when the whole
\* candidate has the shape, from its first character to its last, and the
\* three tokens then cover the candidate
C28_FinalMarkSplitWhole ==
    [][ /\ FirstSplitRule(WholeShape(Head(stack).token))
        /\ (AddStep /\ ~HeadMerges /\ WholeShape(Head(stack).token)
            /\ Len(tokens') = Len(AfterConcat.tokens) + 3) =>
              offsets'[Len(tokens') - 2][1] = Head(stack).begin
      ]_vars

\* hello.World has been split into its three groups
C28_Witness ==
    /\ Returned("EnglishTokenizer")
    /\ text = <<"h","e","l","l","o",".","W","o","r","l","d">>
    /\ tokens = << <<"h","e","l","l","o">>, <<".">>, <<"W","o","r","l","d">> >>
    /\ offsets = << <<0, 5>>, <<5, 6>>, <<6, 11>> >>

\* an entry that was there before the step is there after it, with the
\* same begin; its token and its range have grown at the end at most
Survives(i) ==
    /\ i <= Len(tokens')
    /\ offsets'[i][1] = offsets[i][1]
    /\ offsets'[i][2] >= offsets[i][2]
    /\ Len(tokens'[i]) >= Len(tokens[i])
    /\ SubSeq(tokens'[i], 1, Len(tokens[i])) = tokens[i]

\* a split rule matches the candidate of the head of the stack
SplitRuleMatches ==
    \/ UnitStarts(Head(stack).token) # {}
    \/ lower(Head(stack).token) \in DOMAIN tables.MAP_CONCAT_WORD
    \/ WholeShape(Head(stack).token)

\* the lists that add_token gives when only the last two entries are there
FromLastTwo ==
    LET n == Len(tokens)
        k == IF n < 2 THEN n ELSE 2
    IN  add_token(SubSeq(tokens, n - k + 1, n), SubSeq(offsets, n - k + 1, n),
                  Head(stack).token, Head(stack).begin, Head(stack).end)

\* C29: add_token reads and changes the last one or two emitted entries
\* only: every entry below the last two is left as it was, and the outcome
\* is what it would be without them; an entry that survives keeps its begin
\* (a merge only moves its end); the pieces of a split rule are appended as
\* they are, none of them merged with the tokens before
C29_LastTwoOnly ==
    [][ AddStep =>
          LET n == Len(tokens)
              k == IF n < 2 THEN n ELSE 2
          IN  /\ Len(tokens') >= n - 1 /\ Len(offsets') = Len(tokens')
              /\ SubSeq(tokens', 1, n - 2) = SubSeq(tokens, 1, n - 2)
              /\ SubSeq(offsets', 1, n - 2) = SubSeq(offsets, 1, n - 2)
              /\ tokens' = SubSeq(tokens, 1, n - k) \o FromLastTwo.tokens
              /\ offsets' = SubSeq(offsets, 1, n - k) \o FromLastTwo.offsets
              /\ n >= 2 => Survives(n - 1)
              /\ (n >= 1 /\ ~JoinedToLastTwo /\ ~LastTwoJoined) => Survives(n)
              /\ (~HeadMerges /\ SplitRuleMatches) =>
                    /\ SubSeq(tokens', 1, Len(AfterConcat.tokens)) = AfterConcat.tokens
                    /\ SubSeq(offsets', 1, Len(AfterConcat.tokens)) = AfterConcat.offsets
                    /\ CandidateFrom(Len(AfterConcat.tokens) + 1)
      ]_vars

\* m-8m: 8 and m, the pieces of 8m, have been appended after m and the
\* hyphen; 8 as a candidate of its own would have been merged into m-8
C29_Witness ==
    /\ Returned("EnglishTokenizer")
    /\ text = <<"m","-","8","m">>
    /\ tokens = << <<"m">>, <<"-">>, <<"8">>, <<"m">> >>
    /\ offsets = << <<0, 1>>, <<1, 2>>, <<2, 3>>, <<3, 4>> >>

\* C30: in every state of EnglishTokenizer.tokenize, and in what it returns,
\* every token is non-empty and has no whitespace character in it, also
\* after a merge of tokens from spans with whitespace between them
C30_NoWhitespace ==
    call = "EnglishTokenizer" =>
        \A i \in 1..Len(tokens) :
            /\ tokens[i] # <<>>
            /\ \A k \in 1..Len(tokens[i]) : tokens[i][k] \notin Whitespace

\* the second half alone: no token has a whitespace character in it
C30_NoWhitespaceInside ==
    call = "EnglishTokenizer" =>
        \A i \in 1..Len(tokens) :
            \A k \in 1..Len(tokens[i]) : tokens[i][k] \notin Whitespace

============================================================================
